---- MODULE Spec2Model ----
(***************************************************************************)
(* A model of glox, a tree-walking interpreter for Lox written in Go:      *)
(* the Environment chain, the static Resolver, the GLox.run driver,        *)
(* LoxFunction.call, and LoxClass / LoxInstance with bound methods.        *)
(***************************************************************************)
EXTENDS Integers, Sequences, FiniteSets, TLC

VARIABLES
    envs,   \* the heap of Environment structs, indexed by address 1..Len(envs)
    pre,    \* the heap as it was when the last operation started
    op,     \* the Environment / callable operation performed last
    ret     \* what that operation returned: [val, err]

VARIABLES
    scopes,                 \* Resolver.scopes: stack of name -> status maps
    currentFunctionType,    \* Resolver.currentFunctionType
    currentClassType,       \* Resolver.currentClassType
    stack,                  \* the resolver's open Visit* calls, outermost first
    rerr,                   \* the error the innermost finished call returned
    errors,                 \* messages passed to the host's report()
    hadError,               \* GLox.hadError
    phase,                  \* position in GLox.run
    nstmts,                 \* statements of the program resolved so far
    text,                   \* the lexical scopes open in the program text
    last                    \* what the last resolver step met in the text
VARIABLES
    prog,                   \* the statements handed to GLox.run's two passes
    pos,                    \* index in prog of the next statement
    ienv,                   \* Interpreter.env
    out,                    \* values written by print
    hadRuntimeError,        \* GLox.hadRuntimeError
    runtimeErrors,          \* lines GLox.runtimeError wrote to stderr
    atError,                \* the run as the failing statement found it
    locals                  \* Interpreter.locals: the distances by statement
VARIABLES
    functions,              \* the LoxFunction structs created so far
    handles,                \* the closures the factory calls returned, in order
    ncalls,                 \* calls made so far of each of those closures
    called                  \* the last call of one of them and its result
VARIABLES
    classes,                \* the LoxClass structs of the program
    instances,              \* the LoxInstance structs created so far
    before,                 \* functions and instances before the last operation
    nops                    \* operations on classes and instances made so far

envVars == <<envs, pre, op, ret>>
resVars == <<scopes, currentFunctionType, currentClassType, stack, rerr,
             errors, hadError, phase, nstmts, text, last>>
runVars == <<prog, pos, ienv, out, hadRuntimeError, runtimeErrors, atError,
             locals>>
fnVars == <<functions, handles, ncalls, called>>
objVars == <<classes, instances, before, nops>>
vars == <<envVars, resVars, runVars, fnVars, objVars>>

----------------------------------------------------------------------------
(* Bounds *)

MaxEnvs == 2        \* Environment structs allocated by the scope operations
MaxBindings == 2    \* map entries held by all scopes together
MaxStmts == 4       \* statements and methods in one program
MaxDepth == 2       \* nesting of blocks, branches and function bodies
MaxTokens == 3      \* statements and braces of a program that is also run
MaxCalls == 6       \* calls of the factory and of its closures together
MaxOps == 4         \* operations on classes and instances in one run
MaxInstances == 2   \* instances constructed in one run
MaxScoped == 6      \* statements and braces of a program with nested blocks
MaxLines == 3       \* top-level statements executed after the declarations

----------------------------------------------------------------------------
(* Values and names *)

Names == {"a", "b"}

NilEnv == 0         \* the nil *Environment

Nil == [tag |-> "nil", v |-> 0]
Num(n) == [tag |-> "num", v |-> n]
Values == {Num(1), Num(2)}

NoErr == ""
UndefinedVariable(name) == "Undefined variable '" \o name \o "'"

EmptyMap == [n \in {} |-> Nil]
Put(m, k, v) == [n \in (DOMAIN m) \cup {k} |-> IF n = k THEN v ELSE m[n]]

----------------------------------------------------------------------------
(* Environment (environment.go) *)

NewEnvironment(enclosing) == [enclosing |-> enclosing, values |-> EmptyMap]

\* mutant: define writes through to an enclosing scope that binds the name
RECURSIVE defineVarValue_writeThrough(_, _, _, _)
defineVarValue_writeThrough(h, e, name, value) ==
    IF name \in DOMAIN h[e].values \/ h[e].enclosing = NilEnv
    THEN [h EXCEPT ![e].values = Put(@, name, value)]
    ELSE defineVarValue_writeThrough(h, h[e].enclosing, name, value)

\* e.values[name] = value
defineVarValue(h, e, name, value) ==
    [h EXCEPT ![e].values = Put(@, name, value)]

\* mutant: get looks at the starting scope only
getVarValue_localOnly(h, e, name) ==
    IF name \in DOMAIN h[e].values
    THEN [val |-> h[e].values[name], err |-> NoErr]
    ELSE [val |-> Nil, err |-> UndefinedVariable(name)]

RECURSIVE getVarValue(_, _, _)
getVarValue(h, e, name) ==
    IF name \in DOMAIN h[e].values
    THEN [val |-> h[e].values[name], err |-> NoErr]
    ELSE IF h[e].enclosing # NilEnv
         THEN getVarValue(h, h[e].enclosing, name)
         ELSE [val |-> Nil, err |-> UndefinedVariable(name)]

\* mutant: assign defines the name in the starting scope
assignVarValue_redefine(h, e, name, value) ==
    [heap |-> [h EXCEPT ![e].values = Put(@, name, value)], err |-> NoErr]

RECURSIVE assignVarValue(_, _, _, _)
assignVarValue(h, e, name, value) ==
    IF name \in DOMAIN h[e].values
    THEN [heap |-> [h EXCEPT ![e].values[name] = value], err |-> NoErr]
    ELSE IF h[e].enclosing # NilEnv
         THEN assignVarValue(h, h[e].enclosing, name, value)
         ELSE [heap |-> h, err |-> UndefinedVariable(name)]

\* mutant: the loop runs one time too few
RECURSIVE ancestor_offByOne(_, _, _)
ancestor_offByOne(h, e, distance) ==
    IF distance <= 1 THEN e ELSE ancestor_offByOne(h, h[e].enclosing, distance - 1)

RECURSIVE ancestor(_, _, _)
ancestor(h, e, distance) ==
    IF distance = 0 THEN e ELSE ancestor(h, h[e].enclosing, distance - 1)

\* a Go map read of a missing key yields the zero value, nil
getAt(h, e, distance, name) ==
    LET env == ancestor(h, e, distance)
    IN  IF name \in DOMAIN h[env].values THEN h[env].values[name] ELSE Nil

assignAt(h, e, distance, name, value) ==
    LET env == ancestor(h, e, distance)
    IN  [h EXCEPT ![env].values = Put(@, name, value)]

\* number of enclosing links below e; ancestor() dereferences nil beyond it
RECURSIVE ChainLen(_, _)
ChainLen(h, e) ==
    IF h[e].enclosing = NilEnv THEN 0 ELSE 1 + ChainLen(h, h[e].enclosing)

----------------------------------------------------------------------------
(* Resolver state (resolver.go) *)

NoneType == "none"      \* functionTypeNone, classTypeNone

\* no class has been declared
NoBefore == [functions |-> <<>>, instances |-> <<>>]
NoObjects ==
    /\ classes = <<>>
    /\ instances = <<>>
    /\ before = NoBefore
    /\ nops = 0

\* no expression has a distance
NoLocals == <<>>

\* no statement has failed
NoAtError == [pos |-> 0, out |-> <<>>, envs |-> <<>>]

\* NewResolver, before GLox.run has started
ResolverIdle ==
    /\ scopes = <<>>
    /\ currentFunctionType = NoneType
    /\ currentClassType = NoneType
    /\ stack = <<>>
    /\ rerr = NoErr
    /\ errors = <<>>
    /\ hadError = FALSE
    /\ phase = "idle"
    /\ nstmts = 0
    /\ text = <<>>
    /\ last = [stmt |-> FALSE, redecl |-> FALSE, again |-> FALSE,
               ownInit |-> FALSE, globalVar |-> FALSE, closed |-> FALSE,
               unread |-> {}, unref |-> {}, n0 |-> 0, ret |-> "none",
               fn |-> "none", fnEnd |-> FALSE, this |-> "none",
               method |-> "none", depth |-> 0]
    /\ prog = <<>>
    /\ pos = 1
    /\ ienv = 1
    /\ out = <<>>
    /\ hadRuntimeError = FALSE
    /\ runtimeErrors = <<>>
    /\ atError = NoAtError
    /\ locals = NoLocals
    /\ functions = <<>>
    /\ handles = <<>>
    /\ ncalls = <<>>
    /\ called = [handle |-> 0, value |-> Nil]
    /\ NoObjects

----------------------------------------------------------------------------
(* The Environment operations applied to arbitrary scopes and inputs *)

Addrs == 1..Len(envs)

RECURSIVE SumCard(_, _)
SumCard(h, i) ==
    IF i = 0 THEN 0 ELSE Cardinality(DOMAIN h[i].values) + SumCard(h, i - 1)

\* the model stops adding bindings once MaxBindings exist
Room(h) == SumCard(h, Len(h)) <= MaxBindings

NoOp == [kind |-> "none", env |-> 0, name |-> "", val |-> Nil, dist |-> 0]
NoRet == [val |-> Nil, err |-> NoErr]

\* NewInterpreter: the global scope, NewEnvironment(nil)
InitEnv ==
    /\ envs = <<NewEnvironment(NilEnv)>>
    /\ pre = envs
    /\ op = NoOp
    /\ ret = NoRet
    /\ ResolverIdle

EnvNew(enc) ==
    /\ Len(envs) < MaxEnvs
    /\ envs' = Append(envs, NewEnvironment(enc))
    /\ pre' = envs
    /\ op' = [kind |-> "new", env |-> enc, name |-> "", val |-> Nil, dist |-> 0]
    /\ ret' = NoRet

EnvDefine(e, name, value) ==
    /\ envs' = defineVarValue(envs, e, name, value)
    /\ Room(envs')
    /\ pre' = envs
    /\ op' = [kind |-> "define", env |-> e, name |-> name, val |-> value, dist |-> 0]
    /\ ret' = NoRet

EnvGet(e, name) ==
    /\ envs' = envs
    /\ pre' = envs
    /\ op' = [kind |-> "get", env |-> e, name |-> name, val |-> Nil, dist |-> 0]
    /\ ret' = getVarValue(envs, e, name)

EnvAssign(e, name, value) ==
    LET r == assignVarValue(envs, e, name, value)
    IN  /\ envs' = r.heap
        /\ pre' = envs
    /\ op' = [kind |-> "assign", env |-> e, name |-> name, val |-> value, dist |-> 0]
        /\ ret' = [val |-> Nil, err |-> r.err]

EnvGetAt(e, distance, name) ==
    /\ distance <= ChainLen(envs, e)
    /\ envs' = envs
    /\ pre' = envs
    /\ op' = [kind |-> "getAt", env |-> e, name |-> name, val |-> Nil, dist |-> distance]
    /\ ret' = [val |-> getAt(envs, e, distance, name), err |-> NoErr]

EnvAssignAt(e, distance, name, value) ==
    /\ distance <= ChainLen(envs, e)
    /\ envs' = assignAt(envs, e, distance, name, value)
    /\ Room(envs')
    /\ pre' = envs
    /\ op' = [kind |-> "assignAt", env |-> e, name |-> name, val |-> value, dist |-> distance]
    /\ ret' = NoRet

NextEnv ==
  /\ UNCHANGED <<resVars, runVars, fnVars, objVars>>
  /\
    \/ \E enc \in Addrs : EnvNew(enc)
    \/ \E e \in Addrs, name \in Names, value \in Values : EnvDefine(e, name, value)
    \/ \E e \in Addrs, name \in Names : EnvGet(e, name)
    \/ \E e \in Addrs, name \in Names, value \in Values : EnvAssign(e, name, value)
    \/ \E e \in Addrs, d \in 0..(MaxEnvs - 1), name \in Names : EnvGetAt(e, d, name)
    \/ \E e \in Addrs, d \in 0..(MaxEnvs - 1), name \in Names, value \in Values :
           EnvAssignAt(e, d, name, value)

SpecEnv == InitEnv /\ [][NextEnv]_vars

----------------------------------------------------------------------------
(* Properties of the Environment operations *)

\* the scopes on e's enclosing chain, innermost first, as a function 0..k
Chain(h, e) ==
    CHOOSE c \in UNION {[0..k -> 1..Len(h)] : k \in 0..(Len(h) - 1)} :
        /\ c[0] = e
        /\ \A i \in DOMAIN c :
               IF i + 1 \in DOMAIN c THEN h[c[i]].enclosing = c[i + 1]
                                     ELSE h[c[i]].enclosing = NilEnv

Binds(h, x, name) == name \in DOMAIN h[x].values

\* the positions on chain c whose scope binds name
Binders(h, c, name) == {k \in DOMAIN c : Binds(h, c[k], name)}

\* position k is the nearest one on chain c that binds name
Nearest(h, c, name, k) ==
    /\ k \in Binders(h, c, name)
    /\ \A j \in Binders(h, c, name) : k <= j

\* the two heaps differ at most in the value bound to name in scope x
SameExcept(h1, h2, x, name) ==
    /\ Len(h1) = Len(h2)
    /\ \A y \in 1..Len(h1) :
           /\ h1[y].enclosing = h2[y].enclosing
           /\ \A m \in Names :
                  (y # x \/ m # name) =>
                      /\ Binds(h1, y, m) <=> Binds(h2, y, m)
                      /\ Binds(h1, y, m) => h1[y].values[m] = h2[y].values[m]

\* C2: getVarValue returns the value of the nearest scope on the chain that
\* binds the name, fails with "Undefined variable '<name>'" exactly when no
\* scope on the chain binds it, and modifies no scope.
C2_GetNearestBinding ==
    op.kind = "get" =>
        LET c == Chain(pre, op.env)
        IN  /\ envs = pre
            /\ \A k \in DOMAIN c :
                   Nearest(pre, c, op.name, k) =>
                       ret = [val |-> pre[c[k]].values[op.name], err |-> NoErr]
            /\ (ret.err = UndefinedVariable(op.name))
                   <=> (Binders(pre, c, op.name) = {})
            /\ ret.err \in {NoErr, UndefinedVariable(op.name)}

\* a get of a name that the starting scope binds to one value and its
\* enclosing scope to another
C2_Witness ==
    /\ op.kind = "get"
    /\ envs[op.env].enclosing # NilEnv
    /\ Binds(envs, op.env, op.name)
    /\ Binds(envs, envs[op.env].enclosing, op.name)
    /\ envs[op.env].values[op.name] # envs[envs[op.env].enclosing].values[op.name]
    /\ ret = [val |-> envs[op.env].values[op.name], err |-> NoErr]

\* C3: assignVarValue overwrites the binding in the nearest scope on the
\* chain that already binds the name and creates no binding anywhere; when
\* no scope binds the name it fails naming the identifier and changes nothing.
C3_AssignInPlace ==
    op.kind = "assign" =>
        LET c == Chain(pre, op.env)
        IN  /\ \A k \in DOMAIN c :
                   Nearest(pre, c, op.name, k) =>
                       /\ ret.err = NoErr
                       /\ SameExcept(pre, envs, c[k], op.name)
                       /\ Binds(envs, c[k], op.name)
                       /\ envs[c[k]].values[op.name] = op.val
            /\ (Binders(pre, c, op.name) = {}) =>
                   /\ ret.err = UndefinedVariable(op.name)
                   /\ envs = pre
            /\ Len(envs) = Len(pre)
            /\ \A y \in 1..Len(pre) :
                   DOMAIN envs[y].values = DOMAIN pre[y].values

\* an assign from a scope without the name: the binding of the enclosing
\* scope has the new value and the starting scope still has no binding
C3_Witness ==
    /\ op.kind = "assign"
    /\ ret.err = NoErr
    /\ envs[op.env].enclosing # NilEnv
    /\ ~Binds(envs, op.env, op.name)
    /\ Binds(pre, envs[op.env].enclosing, op.name)
    /\ pre[envs[op.env].enclosing].values[op.name] # op.val
    /\ envs[envs[op.env].enclosing].values[op.name] = op.val

\* C4: defineVarValue inserts or overwrites the name in the receiving scope
\* only: every other scope and every other name is unchanged, and redefining
\* a name keeps the number of bindings of the scope.
C4_DefineLocalOnly ==
    op.kind = "define" =>
        /\ SameExcept(pre, envs, op.env, op.name)
        /\ Binds(envs, op.env, op.name)
        /\ envs[op.env].values[op.name] = op.val
        /\ Binds(pre, op.env, op.name) =>
               Cardinality(DOMAIN envs[op.env].values)
                   = Cardinality(DOMAIN pre[op.env].values)

\* a define on a child scope that redefines a name which its enclosing
\* scope binds to another value
C4_Witness ==
    /\ op.kind = "define"
    /\ envs[op.env].enclosing # NilEnv
    /\ Binds(envs, envs[op.env].enclosing, op.name)
    /\ envs[envs[op.env].enclosing].values[op.name] # op.val
    /\ Binds(pre, op.env, op.name)
    /\ pre[op.env].values[op.name] # op.val
    /\ envs[op.env].values[op.name] = op.val

\* C5: getAt and assignAt follow exactly `distance` enclosing links and read
\* or write only that scope's map, whatever nearer scopes bind.
C5_AtDistanceOnly ==
    /\ op.kind = "getAt" =>
           LET x == Chain(pre, op.env)[op.dist]
           IN  /\ envs = pre
               /\ ret.val = IF Binds(pre, x, op.name)
                            THEN pre[x].values[op.name] ELSE Nil
    /\ op.kind = "assignAt" =>
           LET x == Chain(pre, op.env)[op.dist]
           IN  /\ SameExcept(pre, envs, x, op.name)
               /\ Binds(envs, x, op.name)
               /\ envs[x].values[op.name] = op.val

\* an assignAt at distance >= 1 past a nearer scope that binds the same name
\* to another value
C5_Witness ==
    /\ op.kind = "assignAt"
    /\ op.dist >= 1
    /\ Binds(envs, op.env, op.name)
    /\ envs[op.env].values[op.name] # op.val
    /\ Binds(pre, Chain(pre, op.env)[op.dist], op.name)
    /\ pre[Chain(pre, op.env)[op.dist]].values[op.name] # op.val
    /\ envs[Chain(pre, op.env)[op.dist]].values[op.name] = op.val

----------------------------------------------------------------------------
(* Resolver (resolver.go): scopes, declarations and references *)

isDeclared == "declared"
isDefined == "defined"
isUsed == "used"

AlreadyDeclared == "Already a variable with this name in this scope."
OwnInitializer == "Can't read local variable in its own initializer"
UnusedVariable == "Unused variable"
TopLevelReturn == "Can't return from top-level code."
InitializerReturn == "can't return a value from an initializer"
ThisOutsideClass == "can't use 'this' outside a class"
MethodExists == "method with this name already exists"
GetterOutsideClass == "getter function has to be inside a class"
ResolverError == "resolver error"

Top(q) == q[Len(q)]
Pop(q) == SubSeq(q, 1, Len(q) - 1)

\* the part of the resolver and of the host that the helpers below change
Cur == [scopes |-> scopes, errors |-> errors, hadError |-> hadError]

Ok(R) == [r |-> R, err |-> NoErr]
Fail(R, err) == [r |-> R, err |-> err]

\* GLox.parseError and GLox.error both end in GLox.report
report(R, message) ==
    [R EXCEPT !.errors = Append(@, message), !.hadError = TRUE]

beginScope(R) == [R EXCEPT !.scopes = Append(@, EmptyMap)]

\* mutant: a scope is closed without looking at its variables
endScope_noCheck(R) ==
    IF Len(R.scopes) > 0 THEN Ok([R EXCEPT !.scopes = Pop(@)]) ELSE Ok(R)

\* the scope is popped only when every variable in it is used
endScope(R) ==
    IF Len(R.scopes) > 0
    THEN IF \E n \in DOMAIN Top(R.scopes) : Top(R.scopes)[n] # isUsed
         THEN Fail(report(R, UnusedVariable), "unused variable")
         ELSE Ok([R EXCEPT !.scopes = Pop(@)])
    ELSE Ok(R)

declare(R, name) ==
    IF Len(R.scopes) = 0
    THEN Ok(R)
    ELSE IF name \in DOMAIN Top(R.scopes)
         THEN Fail(report(R, AlreadyDeclared), ResolverError)
         ELSE Ok([R EXCEPT !.scopes[Len(R.scopes)] = Put(@, name, isDeclared)])

define(R, name) ==
    IF Len(R.scopes) = 0
    THEN R
    ELSE [R EXCEPT !.scopes[Len(R.scopes)][name] = isDefined]

injectThis(R) ==
    [R EXCEPT !.scopes[Len(R.scopes)] = Put(@, "this", isUsed)]

\* the loop of resolveLocal, from scope i down to the outermost one;
\* the distance handed to Interpreter.resolve is not kept in this model
RECURSIVE resolveLocalFrom(_, _, _)
resolveLocalFrom(R, name, i) ==
    IF i = 0
    THEN R
    ELSE IF name \in DOMAIN R.scopes[i]
         THEN [R EXCEPT !.scopes[i][name] = isUsed]
         ELSE resolveLocalFrom(R, name, i - 1)

resolveLocal(R, name) == resolveLocalFrom(R, name, Len(R.scopes))

NoDistance == -1

\* mutant: the scopes are counted from the outermost one
RECURSIVE resolveLocalDistance_fromOutermost(_, _, _)
resolveLocalDistance_fromOutermost(R, name, i) ==
    IF i = 0
    THEN NoDistance
    ELSE IF name \in DOMAIN R.scopes[i]
         THEN i - 1
         ELSE resolveLocalDistance_fromOutermost(R, name, i - 1)

\* the distance that the loop of resolveLocal hands to Interpreter.resolve,
\* from scope i down to the outermost one: len(r.scopes)-1-i for 0-based i
RECURSIVE resolveLocalDistance(_, _, _)
resolveLocalDistance(R, name, i) ==
    IF i = 0
    THEN NoDistance
    ELSE IF name \in DOMAIN R.scopes[i]
         THEN Len(R.scopes) - i
         ELSE resolveLocalDistance(R, name, i - 1)

\* mutant: the check for a read in the own initializer is left out
VisitVariableExpr_noCheck(R, name) == Ok(resolveLocal(R, name))

VisitVariableExpr(R, name) ==
    IF /\ Len(R.scopes) # 0
       /\ name \in DOMAIN Top(R.scopes)
       /\ Top(R.scopes)[name] = isDeclared
    THEN Fail(report(R, OwnInitializer), ResolverError)
    ELSE Ok(resolveLocal(R, name))

VisitThisExpr(R, classType) ==
    IF classType = NoneType
    THEN Fail(report(R, ThisOutsideClass), ThisOutsideClass)
    ELSE Ok(resolveLocal(R, "this"))

\* An expression is [base, name, target]: a literal, a variable or `this`,
\* optionally the value of an assignment to target.  VisitAssignExpr
\* resolves the value first and the assigned variable after it.
NoTarget == ""
Exprs ==
    [base : {"lit"}, name : {""}, target : Names \cup {NoTarget}]
        \cup [base : {"this"}, name : {""}, target : {NoTarget}]
        \cup [base : {"read"}, name : Names, target : {NoTarget}]
NoExpr == [base |-> "none", name |-> "", target |-> NoTarget]

\* the conditions of the if and while statements of the programs
Conditions == {e \in Exprs : e.target = NoTarget /\ e.name # "b"}

resolveExpr(R, classType, e) ==
    LET value == CASE e.base = "read" -> VisitVariableExpr(R, e.name)
                   [] e.base = "this" -> VisitThisExpr(R, classType)
                   [] OTHER -> Ok(R)
    IN  IF value.err # NoErr \/ e.target = NoTarget
        THEN value
        ELSE Ok(resolveLocal(value.r, e.target))

\* the distances Interpreter.resolve has got when resolveExpr returns: of
\* the variable read and of the variable assigned
NoDistances == [read |-> NoDistance, target |-> NoDistance]

resolveDistances(R, e) ==
    LET value == resolveExpr(R, NoneType, [e EXCEPT !.target = NoTarget])
    IN  [read |-> IF e.base = "read" /\ value.err = NoErr
                  THEN resolveLocalDistance(R, e.name, Len(R.scopes))
                  ELSE NoDistance,
         target |-> IF e.target # NoTarget /\ value.err = NoErr
                    THEN resolveLocalDistance(value.r, e.target, Len(R.scopes))
                    ELSE NoDistance]

\* the parameter loop of resolveFunction
RECURSIVE declareParams(_, _)
declareParams(R, params) ==
    IF params = <<>>
    THEN Ok(R)
    ELSE LET d == declare(R, Head(params))
         IN  IF d.err # NoErr
             THEN d
             ELSE declareParams(define(d.r, Head(params)), Tail(params))

\* resolveFunction up to the resolution of the body
resolveFunctionEnter(R, classType, isGetter, params) ==
    LET R1 == beginScope(R)
    IN  IF isGetter /\ classType = NoneType
        THEN Fail(report(endScope(R1).r, GetterOutsideClass), GetterOutsideClass)
        ELSE LET d == declareParams(R1, params)
             IN  IF d.err # NoErr THEN Fail(endScope(d.r).r, d.err) ELSE d

----------------------------------------------------------------------------
(* The program text, as far as the resolver has walked it *)

\* One entry of text per scope of the program text that is open: the global
\* scope first, then every block, function body and class body.  An entry
\* holds the names the text declares in the scope, and of those the ones that
\* a later expression reads (reads) or reads or assigns (refs).
\* The entry of a function body also holds what the text declares there (fn):
\* a function, a method, or the method init.
\* The entry of a class body also holds the names of the methods and getters
\* that the text has declared in it so far (methods).
NewText(names) ==
    [names |-> names, reads |-> {}, refs |-> {}, fn |-> "none", methods |-> {}]
ThisText == [NewText({"this"}) EXCEPT !.reads = {"this"}, !.refs = {"this"}]
BodyText(names, fn) == [NewText(names) EXCEPT !.fn = fn]

\* the innermost function or method whose body the text is in
RECURSIVE EnclosingFn(_)
EnclosingFn(t) ==
    IF t = <<>>
    THEN "none"
    ELSE IF Top(t).fn # "none" THEN Top(t).fn ELSE EnclosingFn(Pop(t))

TDeclare(t, name) == [t EXCEPT ![Len(t)].names = @ \cup {name}]

TMethod(t, name) == [t EXCEPT ![Len(t)].methods = @ \cup {name}]

\* a reference belongs to the innermost open scope that declares the name
RECURSIVE TRefFrom(_, _, _, _)
TRefFrom(t, name, isRead, i) ==
    IF i = 0
    THEN t
    ELSE IF name \in t[i].names
         THEN [t EXCEPT ![i].refs = @ \cup {name},
                        ![i].reads = IF isRead THEN @ \cup {name} ELSE @]
         ELSE TRefFrom(t, name, isRead, i - 1)

TRef(t, name, isRead) == TRefFrom(t, name, isRead, Len(t))

TExpr(t, e) ==
    LET t1 == CASE e.base = "read" -> TRef(t, e.name, TRUE)
                [] e.base = "this" -> TRef(t, "this", TRUE)
                [] OTHER -> t
    IN  IF e.target = NoTarget THEN t1 ELSE TRef(t1, e.target, FALSE)

RECURSIVE SeqToSet(_)
SeqToSet(q) == IF q = <<>> THEN {} ELSE {Head(q)} \cup SeqToSet(Tail(q))

HasDup(q) == Cardinality(SeqToSet(q)) < Len(q)

\* the text is inside a block, a function body or a class body
InBody == Len(text) > 1

\* the name is already declared in the scope of the text that is innermost
Declared(name) == name \in Top(text).names

NoLast ==
    [stmt |-> FALSE, redecl |-> FALSE, again |-> FALSE, ownInit |-> FALSE,
     globalVar |-> FALSE, closed |-> FALSE, unread |-> {}, unref |-> {},
     n0 |-> 0, ret |-> "none", fn |-> "none", fnEnd |-> FALSE,
     this |-> "none", method |-> "none", depth |-> 0]

\* the text is inside the body of a class declaration, at any depth
LexicallyInClass == \E i \in 1..Len(text) : "this" \in text[i].names

\* where the text has the `this` expression that the step visits, if any
\* the step meets the declaration of a method or getter called name: the first
\* of that name in the class body, or one more
MethodAt(name) ==
    IF name \in Top(text).methods THEN "again" ELSE "first"

ThisAt(e, visited) ==
    IF visited /\ e.base = "this"
    THEN (IF LexicallyInClass THEN "class" ELSE "outside")
    ELSE "none"

\* the step resolves a statement that declares name
Declares(name, dupParams) ==
    [NoLast EXCEPT !.stmt = TRUE,
                   !.redecl = (InBody /\ Declared(name)) \/ dupParams,
                   !.again = ~InBody /\ Declared(name) /\ ~dupParams,
                   !.n0 = Len(errors)]

\* the step resolves a statement that declares nothing
Plain == [NoLast EXCEPT !.stmt = TRUE, !.n0 = Len(errors)]

\* the step resolves a return statement; fnEnd: it is the first statement
\* after the end of a function declaration
Returns(returnValue) ==
    [Plain EXCEPT !.ret = IF returnValue = NoExpr THEN "bare" ELSE "value",
                  !.fn = EnclosingFn(text),
                  !.fnEnd = last.fnEnd]

\* the step closes the innermost scope of the text after its last statement
Closes ==
    [NoLast EXCEPT !.closed = TRUE,
                   !.unread = Top(text).names \ Top(text).reads,
                   !.unref = Top(text).names \ Top(text).refs,
                   !.n0 = Len(errors),
                   !.depth = Top(stack).depth]

----------------------------------------------------------------------------
(* Resolver: the statement visitors, one open call per frame of stack *)

\* depth: the number of scopes on the stack when the call was entered
Frame(kind, saved, left) ==
    [kind |-> kind, saved |-> saved, left |-> left, methods |-> {},
     depth |-> Len(scopes)]

\* branch statements that the open if and while statements still expect
RECURSIVE Pending(_)
Pending(st) ==
    IF st = <<>>
    THEN 0
    ELSE (IF Top(st).kind \in {"if", "while"} THEN Top(st).left ELSE 0)
             + Pending(Pop(st))

\* a statement returned nil to its caller: VisitIfStmt and VisitWhileStmt
\* return nil in turn once their last branch has been resolved
RECURSIVE Finish(_)
Finish(st) ==
    IF st = <<>> \/ Top(st).kind \notin {"if", "while"}
    THEN st
    ELSE IF Top(st).left = 1
         THEN Finish(Pop(st))
         ELSE [st EXCEPT ![Len(st)].left = @ - 1]

Resolving == phase = "resolve" /\ rerr = NoErr

InFrame(kind) == stack # <<>> /\ Top(stack).kind = kind

\* the text can go on with a statement that brings `more` branch statements
CanStmt(more) ==
    /\ Resolving
    /\ ~InFrame("class")
    /\ nstmts + 1 + more + Pending(stack)
           - (IF InFrame("if") \/ InFrame("while") THEN 1 ELSE 0) <= MaxStmts

\* the class body and the method body count as one level of nesting
RECURSIVE Depth(_)
Depth(st) ==
    IF st = <<>>
    THEN 0
    ELSE (IF Top(st).kind = "class" THEN 0 ELSE 1) + Depth(Pop(st))

DepthRoom == Depth(stack) < MaxDepth

SetCur(R) ==
    /\ scopes' = R.scopes
    /\ errors' = R.errors
    /\ hadError' = R.hadError

\* a statement without nested statements returned res
Return(res) ==
    /\ SetCur(res.r)
    /\ rerr' = res.err
    /\ stack' = IF res.err = NoErr THEN Finish(stack) ELSE stack
    /\ nstmts' = nstmts + 1
    /\ UNCHANGED <<currentFunctionType, currentClassType, phase>>

\* a statement with nested statements returned res before them, or opened frame
Enter(res, frame) ==
    /\ SetCur(res.r)
    /\ rerr' = res.err
    /\ stack' = IF res.err = NoErr THEN Append(stack, frame) ELSE stack
    /\ nstmts' = nstmts + 1
    /\ phase' = phase

VisitVarStmt(name, initializer) ==
    LET d == declare(Cur, name)
        i == IF d.err # NoErr \/ initializer = NoExpr
             THEN d
             ELSE resolveExpr(d.r, currentClassType, initializer)
    IN  /\ CanStmt(0)
        /\ Return(IF i.err # NoErr THEN i ELSE Ok(define(i.r, name)))
        /\ text' = TExpr(TDeclare(text, name), initializer)
        /\ last' = [Declares(name, FALSE) EXCEPT
                      !.ownInit = /\ Len(scopes) > 0
                                  /\ d.err = NoErr
                                  /\ initializer.base = "read"
                                  /\ initializer.name = name,
                      !.globalVar = ~InBody,
                      !.this = ThisAt(initializer, d.err = NoErr)]

VisitExpressionStmt(expression) ==
    /\ CanStmt(0)
    /\ Return(resolveExpr(Cur, currentClassType, expression))
    /\ text' = TExpr(text, expression)
    /\ last' = [Plain EXCEPT !.this = ThisAt(expression, TRUE)]

VisitPrintStmt(expression) ==
    /\ CanStmt(0)
    /\ Return(resolveExpr(Cur, currentClassType, expression))
    /\ text' = TExpr(text, expression)
    /\ last' = [Plain EXCEPT !.this = ThisAt(expression, TRUE)]

\* mutant: a value may be returned from an initializer
VisitReturnStmt_anyValue(returnValue) ==
    /\ CanStmt(0)
    /\ Return(IF currentFunctionType = NoneType
              THEN Fail(report(Cur, TopLevelReturn), ResolverError)
              ELSE IF returnValue = NoExpr
                   THEN Ok(Cur)
                   ELSE resolveExpr(Cur, currentClassType, returnValue))
    /\ text' = TExpr(text, returnValue)
    /\ last' = [Returns(returnValue) EXCEPT
                  !.this = ThisAt(returnValue, currentFunctionType # NoneType)]

VisitReturnStmt(returnValue) ==
    /\ CanStmt(0)
    /\ Return(IF currentFunctionType = NoneType
              THEN Fail(report(Cur, TopLevelReturn), ResolverError)
              ELSE IF returnValue = NoExpr
                   THEN Ok(Cur)
                   ELSE IF currentFunctionType = "initializer"
                        THEN Fail(report(Cur, InitializerReturn), InitializerReturn)
                        ELSE resolveExpr(Cur, currentClassType, returnValue))
    /\ text' = TExpr(text, returnValue)
    /\ last' = [Returns(returnValue) EXCEPT
                  !.this = ThisAt(returnValue,
                                  currentFunctionType \notin {NoneType, "initializer"})]

VisitIfStmt(condition, hasElse) ==
    LET branches == IF hasElse THEN 2 ELSE 1
    IN  /\ CanStmt(branches)
        /\ DepthRoom
        /\ Enter(resolveExpr(Cur, currentClassType, condition),
                 Frame("if", NoneType, branches))
        /\ text' = TExpr(text, condition)
        /\ last' = [Plain EXCEPT !.this = ThisAt(condition, TRUE)]
        /\ UNCHANGED <<currentFunctionType, currentClassType>>

VisitWhileStmt(condition) ==
    /\ CanStmt(1)
    /\ DepthRoom
    /\ Enter(resolveExpr(Cur, currentClassType, condition),
             Frame("while", NoneType, 1))
    /\ text' = TExpr(text, condition)
    /\ last' = [Plain EXCEPT !.this = ThisAt(condition, TRUE)]
    /\ UNCHANGED <<currentFunctionType, currentClassType>>

\* VisitBlockStmt up to the resolution of the statements of the block
VisitBlockStmt ==
    /\ CanStmt(0)
    /\ DepthRoom
    /\ Enter(Ok(beginScope(Cur)), Frame("block", NoneType, 0))
    /\ text' = Append(text, NewText({}))
    /\ last' = Plain
    /\ UNCHANGED <<currentFunctionType, currentClassType>>

\* VisitBlockStmt after the last statement of the block: resolveStmts
\* returned nil, and that, not the result of endScope, is what is returned
BlockExit ==
    LET e == endScope(Cur)
    IN  /\ Resolving
        /\ InFrame("block")
        /\ SetCur(e.r)
        /\ rerr' = NoErr
        /\ stack' = Finish(Pop(stack))
        /\ text' = Pop(text)
        /\ last' = Closes
        /\ UNCHANGED <<currentFunctionType, currentClassType, phase, nstmts>>

\* VisitFunctionStmt and resolveFunction up to the resolution of the body
VisitFunctionStmt(name, isGetter, params) ==
    LET d == declare(Cur, name)
        f == IF d.err # NoErr
             THEN d
             ELSE resolveFunctionEnter(define(d.r, name), currentClassType,
                                       isGetter, params)
    IN  /\ CanStmt(0)
        /\ DepthRoom
        /\ isGetter => params = <<>>
        /\ Enter(f, Frame("function", currentFunctionType, 0))
        /\ currentFunctionType' = IF d.err # NoErr THEN currentFunctionType
                                                   ELSE "function"
        /\ text' = IF f.err = NoErr
                   THEN Append(TDeclare(text, name),
                               BodyText(SeqToSet(params), "function"))
                   ELSE TDeclare(text, name)
        /\ last' = Declares(name, HasDup(params))
        /\ UNCHANGED currentClassType

\* mutant: the kind of the enclosing function is not put back
FunctionExit_noRestore ==
    LET e == endScope(Cur)
    IN  /\ Resolving
        /\ InFrame("function")
        /\ SetCur(e.r)
        /\ rerr' = e.err
        /\ stack' = IF e.err = NoErr THEN Finish(Pop(stack)) ELSE Pop(stack)
        /\ text' = Pop(text)
        /\ last' = [Closes EXCEPT !.fnEnd = TRUE]
        /\ UNCHANGED <<currentFunctionType, currentClassType, phase, nstmts>>

\* resolveFunction after the last statement of the body
FunctionExit ==
    LET e == endScope(Cur)
    IN  /\ Resolving
        /\ InFrame("function")
        /\ SetCur(e.r)
        /\ rerr' = e.err
        /\ currentFunctionType' = Top(stack).saved
        /\ stack' = IF e.err = NoErr THEN Finish(Pop(stack)) ELSE Pop(stack)
        /\ text' = Pop(text)
        /\ last' = [Closes EXCEPT !.fnEnd = TRUE]
        /\ UNCHANGED <<currentClassType, phase, nstmts>>

\* VisitClassStmt up to the loop over the methods
VisitClassStmt(name) ==
    LET d == declare(Cur, name)
        c == IF d.err # NoErr
             THEN d
             ELSE Ok(injectThis(beginScope(define(d.r, name))))
    IN  /\ CanStmt(0)
        /\ DepthRoom
        /\ Enter(c, Frame("class", currentClassType, 0))
        /\ currentClassType' = "class"
        /\ text' = IF d.err = NoErr THEN Append(TDeclare(text, name), ThisText)
                                    ELSE TDeclare(text, name)
        /\ last' = Declares(name, FALSE)
        /\ UNCHANGED currentFunctionType

MethodNames == {"init", "m"}

\* mutant: the names of the methods met so far are not looked at
VisitMethod_noNameCheck(name, isGetter, params) ==
    LET fnType == IF name = "init" THEN "initializer" ELSE "method"
        dup == FALSE
        f == IF dup
             THEN Fail(report(endScope(Cur).r, MethodExists), MethodExists)
             ELSE resolveFunctionEnter(Cur, currentClassType, isGetter, params)
    IN  /\ Resolving
        /\ InFrame("class")
        /\ nstmts < MaxStmts
        /\ DepthRoom
        /\ isGetter => (params = <<>> /\ name # "init")
        /\ SetCur(f.r)
        /\ rerr' = f.err
        /\ stack' = IF f.err = NoErr
                    THEN Append([stack EXCEPT ![Len(stack)].methods = @ \cup {name}],
                                Frame("function", currentFunctionType, 0))
                    ELSE stack
        /\ currentFunctionType' = IF dup THEN currentFunctionType ELSE fnType
        /\ text' = IF f.err = NoErr
                   THEN Append(TMethod(text, name),
                               BodyText(SeqToSet(params),
                                        IF name = "init" THEN "init" ELSE "method"))
                   ELSE TMethod(text, name)
        /\ last' = [Plain EXCEPT !.redecl = ~dup /\ HasDup(params),
                                 !.method = MethodAt(name)]
        /\ nstmts' = nstmts + 1
        /\ UNCHANGED <<currentClassType, phase>>

\* one round of the method loop of VisitClassStmt, up to the method's body
VisitMethod(name, isGetter, params) ==
    LET fnType == IF name = "init" THEN "initializer" ELSE "method"
        dup == name \in Top(stack).methods
        f == IF dup
             THEN Fail(report(endScope(Cur).r, MethodExists), MethodExists)
             ELSE resolveFunctionEnter(Cur, currentClassType, isGetter, params)
    IN  /\ Resolving
        /\ InFrame("class")
        /\ nstmts < MaxStmts
        /\ DepthRoom
        /\ isGetter => (params = <<>> /\ name # "init")
        /\ SetCur(f.r)
        /\ rerr' = f.err
        /\ stack' = IF f.err = NoErr
                    THEN Append([stack EXCEPT ![Len(stack)].methods = @ \cup {name}],
                                Frame("function", currentFunctionType, 0))
                    ELSE stack
        /\ currentFunctionType' = IF dup THEN currentFunctionType ELSE fnType
        /\ text' = IF f.err = NoErr
                   THEN Append(TMethod(text, name),
                               BodyText(SeqToSet(params),
                                        IF name = "init" THEN "init" ELSE "method"))
                   ELSE TMethod(text, name)
        /\ last' = [Plain EXCEPT !.redecl = ~dup /\ HasDup(params),
                                 !.method = MethodAt(name)]
        /\ nstmts' = nstmts + 1
        /\ UNCHANGED <<currentClassType, phase>>

\* mutant: the kind of the enclosing class is not put back
ClassExit_noRestore ==
    LET e == endScope(Cur)
    IN  /\ Resolving
        /\ InFrame("class")
        /\ SetCur(e.r)
        /\ rerr' = e.err
        /\ stack' = IF e.err = NoErr THEN Finish(Pop(stack)) ELSE Pop(stack)
        /\ text' = Pop(text)
        /\ last' = Closes
        /\ UNCHANGED <<currentFunctionType, currentClassType, phase, nstmts>>

\* VisitClassStmt after the last method
ClassExit ==
    LET e == endScope(Cur)
    IN  /\ Resolving
        /\ InFrame("class")
        /\ SetCur(e.r)
        /\ rerr' = e.err
        /\ currentClassType' = IF e.err = NoErr THEN Top(stack).saved
                                                ELSE currentClassType
        /\ stack' = IF e.err = NoErr THEN Finish(Pop(stack)) ELSE Pop(stack)
        /\ text' = Pop(text)
        /\ last' = Closes
        /\ UNCHANGED <<currentFunctionType, phase, nstmts>>

\* the innermost open call got an error back and returns it: VisitBlockStmt
\* and resolveFunction call endScope first, the others return at once
PropagateError ==
    LET kind == Top(stack).kind
        e == IF kind \in {"block", "function"} THEN endScope(Cur) ELSE Ok(Cur)
    IN  /\ phase = "resolve"
        /\ rerr # NoErr
        /\ stack # <<>>
        /\ SetCur(e.r)
        /\ stack' = Pop(stack)
        /\ text' = IF kind \in {"block", "function", "class"}
                   THEN Pop(text) ELSE text
        /\ last' = [NoLast EXCEPT !.n0 = Len(errors)]
        /\ UNCHANGED <<rerr, currentFunctionType, currentClassType, phase, nstmts>>

\* the outermost resolveStmts returns: on an error, or after the last statement
ResolveStmtsReturn ==
    /\ phase = "resolve"
    /\ stack = <<>>
    /\ phase' = "resolved"
    /\ UNCHANGED <<scopes, currentFunctionType, currentClassType, stack, rerr,
                   errors, hadError, nstmts, text, last>>

ParamLists == {<<>>, <<"a">>, <<"a", "a">>}

\* NewResolver, in a GLox.run whose parser reported no error
NewResolver ==
    /\ scopes = <<>>
    /\ currentFunctionType = NoneType
    /\ currentClassType = NoneType
    /\ stack = <<>>
    /\ rerr = NoErr
    /\ errors = <<>>
    /\ hadError = FALSE
    /\ phase = "resolve"
    /\ nstmts = 0
    /\ text = <<NewText({})>>
    /\ last = NoLast

\* NewInterpreter
NewInterpreter ==
    /\ envs = <<NewEnvironment(NilEnv)>>
    /\ pre = envs
    /\ op = NoOp
    /\ ret = NoRet
    /\ ienv = 1
    /\ out = <<>>
    /\ hadRuntimeError = FALSE
    /\ runtimeErrors = <<>>
    /\ atError = NoAtError
    /\ locals = NoLocals

NoFunctions ==
    /\ functions = <<>>
    /\ handles = <<>>
    /\ ncalls = <<>>
    /\ called = [handle |-> 0, value |-> Nil]
    /\ NoObjects

\* the resolve pass over any program within the bounds
InitRes ==
    /\ NewInterpreter
    /\ NewResolver
    /\ NoFunctions
    /\ prog = <<>>
    /\ pos = 1

NextRes ==
  /\ UNCHANGED <<envVars, runVars, fnVars, objVars>>
  /\
    \/ \E n \in Names, e \in Exprs \cup {NoExpr} : VisitVarStmt(n, e)
    \/ \E e \in Exprs : VisitExpressionStmt(e)
    \/ \E e \in Exprs : VisitPrintStmt(e)
    \/ \E e \in Exprs \cup {NoExpr} : VisitReturnStmt(e)
    \/ \E e \in Conditions, hasElse \in BOOLEAN : VisitIfStmt(e, hasElse)
    \/ \E e \in Conditions : VisitWhileStmt(e)
    \/ VisitBlockStmt
    \/ BlockExit
    \/ \E n \in Names, g \in BOOLEAN, ps \in ParamLists : VisitFunctionStmt(n, g, ps)
    \/ FunctionExit
    \/ \E n \in Names : VisitClassStmt(n)
    \/ \E n \in MethodNames, g \in BOOLEAN, ps \in ParamLists : VisitMethod(n, g, ps)
    \/ ClassExit
    \/ PropagateError
    \/ ResolveStmtsReturn

SpecRes == InitRes /\ [][NextRes]_vars

----------------------------------------------------------------------------
(* GLox.run: the resolve pass and the interpreter over one parsed program *)

\* A program is the sequence of its statements in the order of the text, the
\* braces of a block standing for the begin and the end of VisitBlockStmt.
Stmt(kind, name, e) == [kind |-> kind, name |-> name, e |-> e]
Lit == [base |-> "lit", name |-> "", target |-> NoTarget]
Tokens ==
    { Stmt("var", "a", NoExpr),
      Stmt("var", "a", Lit),
      Stmt("var", "b", [base |-> "read", name |-> "a", target |-> NoTarget]),
      Stmt("print", "", Lit),
      Stmt("print", "", [base |-> "read", name |-> "a", target |-> NoTarget]),
      Stmt("print", "", [base |-> "read", name |-> "b", target |-> NoTarget]),
      Stmt("expr", "", [base |-> "lit", name |-> "", target |-> "a"]),
      Stmt("return", "", NoExpr),
      Stmt("{", "", NoExpr),
      Stmt("}", "", NoExpr) }

\* open blocks after the first i statements; -1 when a brace closes nothing
RECURSIVE Nesting(_, _)
Nesting(p, i) ==
    IF i = 0
    THEN 0
    ELSE LET d == Nesting(p, i - 1)
         IN  IF d < 0 THEN d
             ELSE CASE p[i].kind = "{" -> d + 1
                    [] p[i].kind = "}" -> d - 1
                    [] OTHER -> d

\* what the parser can hand to the two passes
Programs ==
    { p \in UNION { [1..n -> Tokens] : n \in 0..MaxTokens } :
          Nesting(p, Len(p)) = 0 }

At(kind) == pos <= Len(prog) /\ prog[pos].kind = kind

\* the resolver takes the next statement of the program
\* and Interpreter.resolve keeps the distances of its expression
Resolve(visit, distances) ==
    /\ visit
    /\ pos' = pos + 1
    /\ locals' = Append(locals, distances)
    /\ UNCHANGED <<envVars, prog, ienv, out, hadRuntimeError, runtimeErrors,
                   atError, fnVars, objVars>>

ResolveVarStmt ==
    /\ At("var")
    /\ Resolve(VisitVarStmt(prog[pos].name, prog[pos].e),
               LET d == declare(Cur, prog[pos].name)
               IN  IF d.err # NoErr THEN NoDistances
                                    ELSE resolveDistances(d.r, prog[pos].e))

ResolvePrintStmt ==
    /\ At("print")
    /\ Resolve(VisitPrintStmt(prog[pos].e), resolveDistances(Cur, prog[pos].e))

ResolveExpressionStmt ==
    /\ At("expr")
    /\ Resolve(VisitExpressionStmt(prog[pos].e), resolveDistances(Cur, prog[pos].e))

ResolveReturnStmt ==
    /\ At("return")
    /\ Resolve(VisitReturnStmt(prog[pos].e), NoDistances)

ResolveBlockStmt == At("{") /\ Resolve(VisitBlockStmt, NoDistances)
ResolveBlockExit == At("}") /\ Resolve(BlockExit, NoDistances)

ResolveError == PropagateError /\ UNCHANGED <<envVars, runVars, fnVars, objVars>>

ResolveReturn ==
    /\ rerr # NoErr \/ pos > Len(prog)
    /\ ResolveStmtsReturn
    /\ UNCHANGED <<envVars, runVars, fnVars, objVars>>

\* mutant: run looks at the error that resolveStmts returned
RunAborts_onReturnedError == rerr # NoErr

\* `if l.hadError { return }` after resolver.resolveStmts(statements)
RunAborts == hadError

\* GLox.run between the two passes
RunAfterResolve ==
    /\ phase = "resolved"
    /\ phase' = IF RunAborts THEN "done" ELSE "interpret"
    /\ pos' = IF RunAborts THEN pos ELSE 1
    /\ UNCHANGED <<envVars, scopes, currentFunctionType, currentClassType, stack,
                   rerr, errors, hadError, nstmts, text, last, prog, ienv, out,
                   hadRuntimeError, runtimeErrors, atError, locals, fnVars,
                   objVars>>

\* Interpreter.evaluate of a literal or a variable, assigned to target if any
evaluate(h, e, x) ==
    LET value == IF x.base = "read"
                 THEN getVarValue(h, e, x.name)
                 ELSE [val |-> Num(1), err |-> NoErr]
    IN  IF value.err # NoErr \/ x.target = NoTarget
        THEN [heap |-> h, val |-> value.val, err |-> value.err]
        ELSE LET a == assignVarValue(h, e, x.target, value.val)
             IN  [heap |-> a.heap, val |-> value.val, err |-> a.err]

\* the statement failed: the open blocks restore Interpreter.env on the way
\* out, and interpret hands the error to GLox.runtimeError and returns
\* mutant: interpret reports the error and goes on to the next statement
RuntimeError_goOn ==
    /\ hadRuntimeError' = TRUE
    /\ runtimeErrors' = Append(runtimeErrors, pos)
    /\ atError' = [pos |-> pos, out |-> out, envs |-> envs]
    /\ ienv' = 1
    /\ pos' = pos + 1
    /\ UNCHANGED <<envs, out, phase, locals>>

RuntimeError ==
    /\ hadRuntimeError' = TRUE
    /\ runtimeErrors' = Append(runtimeErrors, pos)
    /\ atError' = [pos |-> pos, out |-> out, envs |-> envs]
    /\ phase' = "done"
    /\ ienv' = 1
    /\ UNCHANGED <<envs, out, pos, locals>>

Executed(h, o, e) ==
    /\ envs' = h
    /\ out' = o
    /\ ienv' = e
    /\ pos' = pos + 1
    /\ UNCHANGED <<hadRuntimeError, runtimeErrors, atError, phase, locals>>

Interpreting ==
    /\ phase = "interpret"
    /\ UNCHANGED <<pre, op, ret, scopes, currentFunctionType, currentClassType,
                   stack, rerr, errors, hadError, nstmts, text, last, prog,
                   fnVars, objVars>>

ExecVarStmt ==
    LET s == prog[pos]
        v == IF s.e = NoExpr
             THEN [heap |-> envs, val |-> Nil, err |-> NoErr]
             ELSE evaluate(envs, ienv, s.e)
    IN  /\ Interpreting
        /\ At("var")
        /\ IF v.err # NoErr
           THEN RuntimeError
           ELSE Executed(defineVarValue(v.heap, ienv, s.name, v.val), out, ienv)

ExecPrintStmt ==
    LET v == evaluate(envs, ienv, prog[pos].e)
    IN  /\ Interpreting
        /\ At("print")
        /\ IF v.err # NoErr
           THEN RuntimeError
           ELSE Executed(v.heap, Append(out, v.val), ienv)

ExecExpressionStmt ==
    LET v == evaluate(envs, ienv, prog[pos].e)
    IN  /\ Interpreting
        /\ At("expr")
        /\ IF v.err # NoErr
           THEN RuntimeError
           ELSE Executed(v.heap, out, ienv)

\* Interpreter.VisitBlockStmt up to the first statement of the block
ExecBlockStmt ==
    /\ Interpreting
    /\ At("{")
    /\ Executed(Append(envs, NewEnvironment(ienv)), out, Len(envs) + 1)

\* Interpreter.VisitBlockStmt after the last statement: i.env = prevEnv
ExecBlockExit ==
    /\ Interpreting
    /\ At("}")
    /\ Executed(envs, out, envs[ienv].enclosing)

\* interpret after the last statement
InterpretReturn ==
    /\ Interpreting
    /\ pos > Len(prog)
    /\ phase' = "done"
    /\ UNCHANGED <<envs, pos, ienv, out, hadRuntimeError, runtimeErrors, atError,
                   locals>>

InitRun ==
    /\ NewInterpreter
    /\ NewResolver
    /\ NoFunctions
    /\ prog \in Programs
    /\ pos = 1

NextRun ==
    \/ ResolveVarStmt
    \/ ResolvePrintStmt
    \/ ResolveExpressionStmt
    \/ ResolveReturnStmt
    \/ ResolveBlockStmt
    \/ ResolveBlockExit
    \/ ResolveError
    \/ ResolveReturn
    \/ RunAfterResolve
    \/ ExecVarStmt
    \/ ExecPrintStmt
    \/ ExecExpressionStmt
    \/ ExecBlockStmt
    \/ ExecBlockExit
    \/ InterpretReturn

SpecRun == InitRun /\ [][NextRun]_vars

\* programs of nested blocks that declare, read and assign the variable a
ScopedTokens ==
    { Stmt("var", "a", Lit),
      Stmt("var", "b", [base |-> "read", name |-> "a", target |-> NoTarget]),
      Stmt("print", "", [base |-> "read", name |-> "a", target |-> NoTarget]),
      Stmt("expr", "", [base |-> "lit", name |-> "", target |-> "a"]),
      Stmt("{", "", NoExpr),
      Stmt("}", "", NoExpr) }

ScopedPrograms ==
    { p \in UNION { [1..n -> ScopedTokens] : n \in 0..MaxScoped } :
          Nesting(p, Len(p)) = 0 }

InitScoped ==
    /\ NewInterpreter
    /\ NewResolver
    /\ NoFunctions
    /\ prog \in ScopedPrograms
    /\ pos = 1

NextScoped ==
    \/ ResolveVarStmt
    \/ ResolvePrintStmt
    \/ ResolveExpressionStmt
    \/ ResolveBlockStmt
    \/ ResolveBlockExit
    \/ ResolveError
    \/ ResolveReturn
    \/ RunAfterResolve
    \/ ExecVarStmt
    \/ ExecPrintStmt
    \/ ExecExpressionStmt
    \/ ExecBlockStmt
    \/ ExecBlockExit
    \/ InterpretReturn

SpecScoped == InitScoped /\ [][NextScoped]_vars

----------------------------------------------------------------------------
(* LoxFunction: calls of a factory function and of the closures it returns *)

\*   fun makeCounter() {
\*     var count = 0;
\*     fun inc() { count = count + 1; return count; }
\*     return inc;
\*   }
\* followed by any number of `var incN = makeCounter();` and of calls
\* `incN()` in any order.

FunValue(i) == [tag |-> "fun", v |-> i]

LoxFunction(declaration, closure) ==
    [declaration |-> declaration, closure |-> closure]

\* a function declaration is executed in scope e: the new function captures
\* e, the environment live at the declaration, and is bound to its name in e
declareFunction(h, fs, e, name) ==
    [heap |-> defineVarValue(h, e, name, FunValue(Len(fs) + 1)),
     fns |-> Append(fs, LoxFunction(name, e))]

\* mutant: the body runs in the closure itself, no scope is created
callEnv_closureItself(h, lf) == [heap |-> h, env |-> lf.closure]

\* LoxFunction.call: env := NewEnvironment(lf.closure)
callEnv(h, lf) ==
    [heap |-> Append(h, NewEnvironment(lf.closure)), env |-> Len(h) + 1]

\* the body of makeCounter executed in scope e; val is the value returned
makeCounterBody(h, fs, e) ==
    LET h1 == defineVarValue(h, e, "count", Num(0))
        d == declareFunction(h1, fs, e, "inc")
    IN  [heap |-> d.heap, fns |-> d.fns,
         val |-> getVarValue(d.heap, e, "inc").val]

\* the body of inc executed in scope e; val is the value returned
incBody(h, e) ==
    LET count == getVarValue(h, e, "count").val
        a == assignVarValue(h, e, "count", Num(count.v + 1))
    IN  [heap |-> a.heap, val |-> getVarValue(a.heap, e, "count").val]

RECURSIVE Sum(_)
Sum(q) == IF q = <<>> THEN 0 ELSE Head(q) + Sum(Tail(q))

CallRoom == Len(handles) + Sum(ncalls) < MaxCalls

\* the global scope after the declaration of makeCounter has been executed
InitFn ==
    /\ LET d == declareFunction(<<NewEnvironment(NilEnv)>>, <<>>, 1, "makeCounter")
       IN  envs = d.heap /\ functions = d.fns
    /\ pre = envs
    /\ op = NoOp
    /\ ret = NoRet
    /\ handles = <<>>
    /\ ncalls = <<>>
    /\ called = [handle |-> 0, value |-> Nil]
    /\ ienv = 1
    /\ out = <<>>
    /\ hadRuntimeError = FALSE
    /\ runtimeErrors = <<>>
    /\ atError = NoAtError
    /\ locals = NoLocals
    /\ prog = <<>>
    /\ pos = 1
    /\ NewResolver
    /\ NoObjects

\* var incN = makeCounter();
CallMakeCounter ==
    LET lf == functions[getVarValue(envs, 1, "makeCounter").val.v]
        c == callEnv(envs, lf)
        b == makeCounterBody(c.heap, functions, c.env)
    IN  /\ CallRoom
        /\ envs' = b.heap
        /\ functions' = b.fns
        /\ handles' = Append(handles, b.val)
        /\ ncalls' = Append(ncalls, 0)
        /\ called' = [handle |-> 0, value |-> b.val]
        /\ pre' = envs
        /\ UNCHANGED <<op, ret, resVars, runVars, objVars>>

\* incN();
CallInc(n) ==
    LET lf == functions[handles[n].v]
        c == callEnv(envs, lf)
        b == incBody(c.heap, c.env)
    IN  /\ CallRoom
        /\ envs' = b.heap
        /\ ncalls' = [ncalls EXCEPT ![n] = @ + 1]
        /\ called' = [handle |-> n, value |-> b.val]
        /\ pre' = envs
        /\ UNCHANGED <<functions, handles, op, ret, resVars, runVars, objVars>>

NextFn ==
    \/ CallMakeCounter
    \/ \E n \in 1..Len(handles) : CallInc(n)

SpecFn == InitFn /\ [][NextFn]_vars

\* the scope in which the variable count of closure n lives
CountScope(n) == functions[handles[n].v].closure

\* C1: every call runs in a scope created for it whose parent is the closure
\* of the function called; the closures that the calls of the factory return
\* count independently: the k-th call of a closure returns k, however the
\* calls of the other closures are interleaved with it.
C1_IndependentClosures ==
    /\ (handles # <<>> /\ called.value # Nil) =>
           /\ Len(envs) = Len(pre) + 1
           /\ Top(envs).enclosing \in 1..Len(pre)
           /\ called.handle # 0 =>
                  /\ Top(envs).enclosing = CountScope(called.handle)
                  /\ called.value = Num(ncalls[called.handle])
    /\ \A n \in 1..Len(handles) :
           /\ getVarValue(envs, CountScope(n), "count").val = Num(ncalls[n])
           /\ \A m \in 1..Len(handles) : m # n => CountScope(m) # CountScope(n)

\* inc1(); inc1() have returned 1 and 2, and inc2() has just returned 1
C1_Witness ==
    /\ Len(handles) = 2
    /\ ncalls = <<2, 1>>
    /\ called = [handle |-> 2, value |-> Num(1)]
    /\ getVarValue(envs, CountScope(1), "count").val = Num(2)

----------------------------------------------------------------------------
(* LoxClass, LoxInstance and LoxFunction: classes, instances and methods *)

\* The program declares, in this order,
\*   class A     { greet() { return "A"; }  foo() { return "A.foo"; }
\*                 g { return "g"; } }
\*   class B < A { init(x) { this.field = x; }  greet() { return "B"; }
\*                 parentGreet() { return super.greet(); }
\*                 bar() { return super.foo(); } }
\*   class C < B { init(x) { this.field = x; return; }
\*                 greet() { return "C"; }
\*                 parentGreet() { return super.greet(); } }
\* and then constructs instances, writes and reads their properties and
\* calls the methods it has read, in any order.

Str(s) == [tag |-> "str", v |-> s]
ClassValue(c) == [tag |-> "class", v |-> c]
InstanceValue(i) == [tag |-> "instance", v |-> i]

NoMethod == 0       \* the nil *LoxFunction
NoSuperclass == ""

UndefinedProperty(name) == "undefined property name " \o name

Digits == <<"0", "1", "2", "3">>
ArityError(n, m) ==
    "Expected " \o Digits[n + 1] \o " arguments but got " \o Digits[m + 1]

FunctionStmt(functionName, isGetter, params, body) ==
    [functionName |-> functionName, isGetter |-> isGetter, params |-> params,
     body |-> body]

ClassStmt(className, superclass, methods) ==
    [className |-> className, superclass |-> superclass, methods |-> methods]

\* the method bodies of the program
ReturnStr(s) == [kind |-> "return", name |-> s]         \* return "s";
ReturnSuper(m) == [kind |-> "super", name |-> m]        \* return super.m();
SetField == [kind |-> "set", name |-> "field"]          \* this.field = x;
SetFieldReturn == [kind |-> "setReturn", name |-> "field"]  \* ... return;

ClassDecls ==
    << ClassStmt("A", NoSuperclass,
                 << FunctionStmt("greet", FALSE, <<>>, ReturnStr("A")),
                    FunctionStmt("foo", FALSE, <<>>, ReturnStr("A.foo")),
                    FunctionStmt("g", TRUE, <<>>, ReturnStr("g")) >>),
       ClassStmt("B", "A",
                 << FunctionStmt("init", FALSE, <<"x">>, SetField),
                    FunctionStmt("greet", FALSE, <<>>, ReturnStr("B")),
                    FunctionStmt("parentGreet", FALSE, <<>>, ReturnSuper("greet")),
                    FunctionStmt("bar", FALSE, <<>>, ReturnSuper("foo")) >>),
       ClassStmt("C", "B",
                 << FunctionStmt("init", FALSE, <<"x">>, SetFieldReturn),
                    FunctionStmt("greet", FALSE, <<>>, ReturnStr("C")),
                    FunctionStmt("parentGreet", FALSE, <<>>, ReturnSuper("greet")) >>) >>

NewLoxClass(name, methods) == [name |-> name, methods |-> methods]

NewLoxInstance(class) == [class |-> class, fields |-> EmptyMap]

LoxClass_findMethod(lc, methodName) ==
    IF methodName \in DOMAIN lc.methods
    THEN lc.methods[methodName]
    ELSE NoMethod

LoxFunction_arity(lf) == Len(lf.declaration.params)

\* the objects of a run: Environment, LoxFunction, LoxClass and LoxInstance
\* structs, each referred to by its index
Objects(h, fs, cs, is) ==
    [envs |-> h, functions |-> fs, classes |-> cs, instances |-> is]

\* mutant: a class without init takes one argument
LoxClass_arity_noZero(S, lc) ==
    LET initFn == LoxClass_findMethod(lc, "init")
    IN  IF initFn # NoMethod THEN LoxFunction_arity(S.functions[initFn]) ELSE 1

\* LoxClass.arity
LoxClass_arity(S, lc) ==
    LET initFn == LoxClass_findMethod(lc, "init")
    IN  IF initFn # NoMethod THEN LoxFunction_arity(S.functions[initFn]) ELSE 0

\* mutant: this is defined in the closure of the method itself
LoxFunction_bind_inClosure(S, lf, li) ==
    [S |-> [S EXCEPT
              !.envs = defineVarValue(S.envs, lf.closure, "this", InstanceValue(li)),
              !.functions = Append(@, LoxFunction(lf.declaration, lf.closure))],
     fn |-> Len(S.functions) + 1]

\* LoxFunction.bind; fn is the LoxFunction returned
LoxFunction_bind(S, lf, li) ==
    LET env == Len(S.envs) + 1
    IN  [S |-> [S EXCEPT
                  !.envs = defineVarValue(Append(S.envs, NewEnvironment(lf.closure)),
                                          env, "this", InstanceValue(li)),
                  !.functions = Append(@, LoxFunction(lf.declaration, env))],
         fn |-> Len(S.functions) + 1]

\* mutant: the instances of a run share one table of fields
LoxInstance_set_shared(S, li, name, value) ==
    [S EXCEPT !.instances =
         [i \in DOMAIN @ |-> [@[i] EXCEPT !.fields = Put(@, name, value)]]]

\* LoxInstance.set
LoxInstance_set(S, li, name, value) ==
    [S EXCEPT !.instances[li].fields = Put(@, name, value)]

RECURSIVE defineParams(_, _, _, _)
defineParams(h, e, params, arguments) ==
    IF params = <<>>
    THEN h
    ELSE defineParams(defineVarValue(h, e, Head(params), Head(arguments)), e,
                      Tail(params), Tail(arguments))

RECURSIVE LoxFunction_call(_, _, _)
RECURSIVE executeBlock(_, _, _)
RECURSIVE executeStmts(_, _)

\* `super.name()` evaluated in scope e of a method body: super is bound two
\* scopes up, this one scope up
superCall(S, e, name) ==
    LET superclass == getAt(S.envs, e, 2, "super")
        object == getAt(S.envs, e, 1, "this")
        method == LoxClass_findMethod(S.classes[superclass.v], name)
    IN  IF method = NoMethod
        THEN [S |-> S, val |-> Nil, err |-> UndefinedProperty(name)]
        ELSE LET b == LoxFunction_bind(S, S.functions[method], object.v)
             IN  LoxFunction_call(b.S, b.S.functions[b.fn], <<>>)

\* Interpreter.executeBlock on a method body in the scope e of the call; a
\* body of statements is executed with e as the current environment, and the
\* environment of the caller is current again afterwards
executeBlock(S, body, e) ==
    CASE body.kind = "block" ->
             LET result(x) == [x EXCEPT !.S.env = S.env]
             IN  result(executeStmts([S EXCEPT !.env = e], body.statements))
      [] body.kind = "return" ->
             [S |-> S, signal |-> "return", val |-> Str(body.name), err |-> NoErr]
      [] body.kind = "super" ->
             LET result(r) ==
                     [S |-> r.S,
                      signal |-> IF r.err # NoErr THEN "error" ELSE "return",
                      val |-> r.val, err |-> r.err]
             IN  result(superCall(S, e, body.name))
      [] OTHER ->
             LET object == getAt(S.envs, e, 1, "this")
                 value == getAt(S.envs, e, 0, "x")
             IN  [S |-> LoxInstance_set(S, object.v, body.name, value),
                  signal |-> IF body.kind = "setReturn" THEN "return" ELSE "normal",
                  val |-> Nil, err |-> NoErr]

\* mutant: a ReturnValue is handed on to the caller as any other error is
LoxFunction_call_passReturn(S, lf, arguments) ==
    LET c == callEnv(S.envs, lf)
        h == defineParams(c.heap, c.env, lf.declaration.params, arguments)
        result(x) ==
            IF x.signal = "return"
            THEN [S |-> x.S, val |-> Nil, err |-> "ReturnValue"]
            ELSE IF x.signal = "error"
                 THEN [S |-> x.S, val |-> Nil, err |-> x.err]
                 ELSE [S |-> x.S, val |-> Nil, err |-> NoErr]
    IN  result(executeBlock([S EXCEPT !.envs = h], lf.declaration.body, c.env))

\* LoxFunction.call
LoxFunction_call(S, lf, arguments) ==
    LET c == callEnv(S.envs, lf)
        h == defineParams(c.heap, c.env, lf.declaration.params, arguments)
        result(x) ==
            IF x.signal = "return"
            THEN [S |-> x.S, val |-> x.val, err |-> NoErr]
            ELSE IF x.signal = "error"
                 THEN [S |-> x.S, val |-> Nil, err |-> x.err]
                 ELSE [S |-> x.S, val |-> Nil, err |-> NoErr]
    IN  result(executeBlock([S EXCEPT !.envs = h], lf.declaration.body, c.env))

\* mutant: the constructor returns what the initializer returned
LoxClass_call_initResult(S, c, arguments) ==
    LET instance == Len(S.instances) + 1
        S1 == [S EXCEPT !.instances = Append(@, NewLoxInstance(c))]
        initializer == LoxClass_findMethod(S.classes[c], "init")
    IN  IF initializer = NoMethod
        THEN [S |-> S1, val |-> InstanceValue(instance), err |-> NoErr]
        ELSE LET b == LoxFunction_bind(S1, S1.functions[initializer], instance)
             IN  LoxFunction_call(b.S, b.S.functions[b.fn], arguments)

\* LoxClass.call
LoxClass_call(S, c, arguments) ==
    LET instance == Len(S.instances) + 1
        S1 == [S EXCEPT !.instances = Append(@, NewLoxInstance(c))]
        initializer == LoxClass_findMethod(S.classes[c], "init")
    IN  IF initializer = NoMethod
        THEN [S |-> S1, val |-> InstanceValue(instance), err |-> NoErr]
        ELSE LET b == LoxFunction_bind(S1, S1.functions[initializer], instance)
                 result(r) ==
                     IF r.err # NoErr
                     THEN [S |-> r.S, val |-> Nil, err |-> r.err]
                     ELSE [S |-> r.S, val |-> InstanceValue(instance), err |-> NoErr]
             IN  result(LoxFunction_call(b.S, b.S.functions[b.fn], arguments))

\* mutant: the methods of the class are looked up before the fields
LoxInstance_get_methodFirst(S, li, name) ==
    LET method == LoxClass_findMethod(S.classes[S.instances[li].class], name)
    IN  IF method # NoMethod
        THEN LET b == LoxFunction_bind(S, S.functions[method], li)
             IN  [S |-> b.S, val |-> FunValue(b.fn), err |-> NoErr]
        ELSE IF name \in DOMAIN S.instances[li].fields
             THEN [S |-> S, val |-> S.instances[li].fields[name], err |-> NoErr]
             ELSE [S |-> S, val |-> Nil, err |-> UndefinedProperty(name)]

\* LoxInstance.get
LoxInstance_get(S, li, name) ==
    IF name \in DOMAIN S.instances[li].fields
    THEN [S |-> S, val |-> S.instances[li].fields[name], err |-> NoErr]
    ELSE LET method == LoxClass_findMethod(S.classes[S.instances[li].class], name)
         IN  IF method # NoMethod
             THEN LET b == LoxFunction_bind(S, S.functions[method], li)
                  IN  [S |-> b.S, val |-> FunValue(b.fn), err |-> NoErr]
             ELSE [S |-> S, val |-> Nil, err |-> UndefinedProperty(name)]

\* LoxCallable.arity of the callee, a class or a function
LoxCallable_arity(S, callee) ==
    IF callee.tag = "class"
    THEN LoxClass_arity(S, S.classes[callee.v])
    ELSE LoxFunction_arity(S.functions[callee.v])

\* LoxCallable.call
LoxCallable_call(S, callee, arguments) ==
    IF callee.tag = "class"
    THEN LoxClass_call(S, callee.v, arguments)
    ELSE LoxFunction_call(S, S.functions[callee.v], arguments)

\* a call expression, its callee and arguments evaluated: the callee is
\* called only with as many arguments as its arity
VisitCallExpr(S, callee, arguments) ==
    IF Len(arguments) # LoxCallable_arity(S, callee)
    THEN [S |-> S, val |-> Nil,
          err |-> ArityError(LoxCallable_arity(S, callee), Len(arguments))]
    ELSE LoxCallable_call(S, callee, arguments)

\* a class declaration is executed at top level: with a superclass, the
\* methods capture a scope that binds super to it; the class is bound to its
\* name in the global scope
declareClass(S, stmt) ==
    LET inherits == stmt.superclass # NoSuperclass
        closure == IF inherits THEN Len(S.envs) + 1 ELSE 1
        h == IF inherits
             THEN defineVarValue(Append(S.envs, NewEnvironment(1)), closure, "super",
                                 getVarValue(S.envs, 1, stmt.superclass).val)
             ELSE S.envs
        n == Len(S.functions)
        index(m) == CHOOSE i \in 1..Len(stmt.methods) : stmt.methods[i].functionName = m
        methods == [m \in {stmt.methods[i].functionName : i \in 1..Len(stmt.methods)}
                       |-> n + index(m)]
    IN  [S EXCEPT
           !.envs = defineVarValue(h, 1, stmt.className, ClassValue(Len(S.classes) + 1)),
           !.functions = @ \o [i \in 1..Len(stmt.methods)
                                  |-> LoxFunction(stmt.methods[i], closure)],
           !.classes = Append(@, NewLoxClass(stmt.className, methods))]

RECURSIVE declareClasses(_, _)
declareClasses(S, stmts) ==
    IF stmts = <<>> THEN S ELSE declareClasses(declareClass(S, Head(stmts)), Tail(stmts))

\* the run after the class declarations have been executed
InitObj ==
    /\ LET S == declareClasses(Objects(<<NewEnvironment(NilEnv)>>, <<>>, <<>>, <<>>),
                               ClassDecls)
       IN  /\ envs = S.envs
           /\ functions = S.functions
           /\ classes = S.classes
           /\ instances = S.instances
    /\ pre = envs
    /\ before = [functions |-> functions, instances |-> instances]
    /\ nops = 0
    /\ op = NoOp
    /\ ret = NoRet
    /\ handles = <<>>
    /\ ncalls = <<>>
    /\ called = [handle |-> 0, value |-> Nil]
    /\ ienv = 1
    /\ out = <<>>
    /\ hadRuntimeError = FALSE
    /\ runtimeErrors = <<>>
    /\ atError = NoAtError
    /\ locals = NoLocals
    /\ prog = <<>>
    /\ pos = 1
    /\ NewResolver

ObjOp(kind, inst, name, val) ==
    [kind |-> kind, inst |-> inst, name |-> name, val |-> val]

\* an operation of the program has returned r
Returned(o, r) ==
    /\ nops < MaxOps
    /\ envs' = r.S.envs
    /\ functions' = r.S.functions
    /\ instances' = r.S.instances
    /\ pre' = envs
    /\ before' = [functions |-> functions, instances |-> instances]
    /\ nops' = nops + 1
    /\ op' = o
    /\ ret' = [val |-> r.val, err |-> r.err]
    /\ UNCHANGED <<classes, handles, ncalls, called, resVars, runVars>>

ObjectsNow == Objects(envs, functions, classes, instances)

\* what a call expression did: o if it called the callee, and the number of
\* arguments and the callee if it did not
Called(o, callee, arguments) ==
    IF Len(arguments) = LoxCallable_arity(ObjectsNow, callee)
    THEN o
    ELSE ObjOp("arity", Len(arguments), "", callee)

\* var v = C(arguments);
Construct(c, arguments) ==
    /\ Len(instances) < MaxInstances
    /\ Returned(Called(ObjOp("construct", c, "",
                             IF arguments = <<>> THEN Nil ELSE arguments[1]),
                       ClassValue(c), arguments),
                VisitCallExpr(ObjectsNow, ClassValue(c), arguments))

\* instance.name = value;
SetProperty(li, name, value) ==
    Returned(ObjOp("set", li, name, value),
             [S |-> LoxInstance_set(ObjectsNow, li, name, value), val |-> value, err |-> NoErr])

\* var v = instance.name;
GetProperty(li, name) ==
    Returned(ObjOp("get", li, name, Nil), LoxInstance_get(ObjectsNow, li, name))

\* the instance a LoxFunction is bound to, Nil if it is not bound
This(h, lf) == getAt(h, lf.closure, 0, "this")

\* v(arguments); for a method v read from an instance before
CallMethod(fn, arguments) ==
    /\ This(envs, functions[fn]) # Nil
    /\ Returned(Called(ObjOp("call", fn, functions[fn].declaration.functionName,
                             IF arguments = <<>> THEN Nil ELSE arguments[1]),
                       FunValue(fn), arguments),
                VisitCallExpr(ObjectsNow, FunValue(fn), arguments))

PropNames == {"field", "greet", "g", "init", "parentGreet", "bar", "nope"}
FieldNames == {"field", "greet"}
ArgLists == {<<>>} \cup {<<v>> : v \in Values}

NextObj ==
    \/ \E c \in 1..Len(classes), arguments \in ArgLists : Construct(c, arguments)
    \/ \E li \in 1..Len(instances), name \in FieldNames, value \in Values :
           SetProperty(li, name, value)
    \/ \E li \in 1..Len(instances), name \in PropNames : GetProperty(li, name)
    \/ \E fn \in 1..Len(functions), arguments \in ArgLists : CallMethod(fn, arguments)

SpecObj == InitObj /\ [][NextObj]_vars

----------------------------------------------------------------------------
(* Interpreter (interpreter.go): statements and expressions as trees *)

\* The program first declares
\*   fun inBlock() { { return "block"; } print "late"; }
\*   fun inIf()    { if (a > 0) return "if"; print "late"; }
\*   fun inWhile() { while (a > 0) { return "while"; } print "late"; }
\*   fun outer()   { print inBlock(); print "outer"; return "done"; }
\*   class A {}
\*   var o = A();
\* and goes on with up to MaxLines of the statements of Lines, in any order.

Bool(b) == [tag |-> "bool", v |-> b]

\* float64 numbers, held exactly as fractions v/d with d = 1 left out; x/0 is
\* +Inf, -Inf or NaN, held as 1/0, -1/0 and 0/0 (rounding is not modelled)
Numer(x) == x.v
Denom(x) == IF "d" \in DOMAIN x THEN x.d ELSE 1

Abs(n) == IF n < 0 THEN -n ELSE n

RECURSIVE GCD(_, _)
GCD(m, n) == IF n = 0 THEN m ELSE GCD(n, m % n)

Number(n, d) ==
    IF d = 0
    THEN [tag |-> "num", v |-> IF n > 0 THEN 1 ELSE IF n < 0 THEN -1 ELSE 0, d |-> 0]
    ELSE LET g == GCD(Abs(n), Abs(d))
             s == IF d < 0 THEN -1 ELSE 1
         IN  IF Abs(d) = g
             THEN Num((s * n) \div g)
             ELSE [tag |-> "num", v |-> (s * n) \div g, d |-> (s * d) \div g]

Plus(x, y) == Number(Numer(x) * Denom(y) + Numer(y) * Denom(x), Denom(x) * Denom(y))
Minus(x, y) == Number(Numer(x) * Denom(y) - Numer(y) * Denom(x), Denom(x) * Denom(y))
Slash(x, y) == Number(Numer(x) * Denom(y), Denom(x) * Numer(y))
Greater(x, y) == Numer(x) * Denom(y) > Numer(y) * Denom(x)

\* expressions (Expr)
NilNode == [type |-> "nil"]         \* no initializer, no else branch, no value
LiteralExpr(Value) == [type |-> "Literal", Value |-> Value]
VariableExpr(name) == [type |-> "Variable", name |-> name]
AssignExpr(name, value) == [type |-> "Assign", name |-> name, value |-> value]
BinaryExpr(Left, Operator, Right) ==
    [type |-> "Binary", Left |-> Left, Operator |-> Operator, Right |-> Right]
CallExpr(Callee) == [type |-> "Call", Callee |-> Callee]

\* statements (Stmt)
VarStmt(name, initializer) ==
    [type |-> "Var", name |-> name, initializer |-> initializer]
ExpressionStmt(expression) == [type |-> "Expression", expression |-> expression]
PrintStmt(expression) == [type |-> "Print", expression |-> expression]
IfStmt(condition, thenBranch, elseBranch) ==
    [type |-> "If", condition |-> condition, thenBranch |-> thenBranch,
     elseBranch |-> elseBranch]
WhileStmt(condition, statement) ==
    [type |-> "While", condition |-> condition, statement |-> statement]
BlockStmt(statements) == [type |-> "Block", statements |-> statements]
ReturnStmt(returnValue) == [type |-> "Return", returnValue |-> returnValue]
Body(statements) == [kind |-> "block", statements |-> statements]

OperandsMustBeNumbers(lexeme) ==
    "operands to operator " \o lexeme \o " must be numbers"
PlusOperands == "operands to operator + must be numbers/strings"
DivisionByZero == "illegal operation: division by zero"
NotCallable == "Can only call functions and classes."

isTruthy(a) ==
    IF a.tag = "nil" THEN FALSE ELSE IF a.tag = "bool" THEN a.v ELSE TRUE

\* the interpreter: the objects of the run, the current Environment env and
\* the lines written to standard output
Interp(S, env, o) ==
    [envs |-> S.envs, functions |-> S.functions, classes |-> S.classes,
     instances |-> S.instances, env |-> env, out |-> o]

\* (value, nil) and (nil, err) returned by the visitors of expressions
Value(S, v) == [S |-> S, val |-> v, err |-> NoErr]
Raise(S, err) == [S |-> S, val |-> Nil, err |-> err]

\* nil, a RuntimeError and a ReturnValue returned by the visitors of statements
Normal(S) == [S |-> S, signal |-> "normal", val |-> Nil, err |-> NoErr]
Failed(S, err) == [S |-> S, signal |-> "error", val |-> Nil, err |-> err]
ReturnValue(S, v) == [S |-> S, signal |-> "return", val |-> v, err |-> NoErr]

RECURSIVE Expr_Accept(_, _)
RECURSIVE execute(_, _)

\* if v, err := ...; err != nil { return nil, err }, and else Then(v)
IfValue(v, Then(_)) == IF v.err # NoErr THEN Raise(v.S, v.err) ELSE Then(v)

\* if v, err := ...; err != nil { return err }, and else Then(v)
IfNoError(v, Then(_)) == IF v.err # NoErr THEN Failed(v.S, v.err) ELSE Then(v)

\* if err := ...; err != nil { return err }, and else Then(x)
IfNil(x, Then(_)) == IF x.signal # "normal" THEN x ELSE Then(x)

Interpreter_VisitVariableExpr(S, expr) ==
    [S |-> S] @@ getVarValue(S.envs, S.env, expr.name)

assigned(v, a) ==
    IF a.err # NoErr THEN Raise(v.S, a.err) ELSE Value([v.S EXCEPT !.envs = a.heap], v.val)

Interpreter_VisitAssignExpr(S, expr) ==
    IfValue(Expr_Accept(S, expr.value),
            LAMBDA v : assigned(v, assignVarValue(v.S.envs, v.S.env, expr.name, v.val)))

\* cases of the operator that need two numbers, and + that takes two strings too
numbers(l, r) == l.tag = "num" /\ r.tag = "num"

\* mutant: a quotient is computed whatever the divisor is
binary_noZeroCheck(S, operator, l, r) ==
    CASE operator = ">" ->
             IF numbers(l, r)
             THEN Value(S, Bool(Greater(l, r)))
             ELSE Raise(S, OperandsMustBeNumbers(">"))
      [] operator = "-" ->
             IF numbers(l, r)
             THEN Value(S, Minus(l, r))
             ELSE Raise(S, OperandsMustBeNumbers("-"))
      [] operator = "+" ->
             IF numbers(l, r)
             THEN Value(S, Plus(l, r))
             ELSE IF l.tag = "str" /\ r.tag = "str"
                  THEN Value(S, Str(l.v \o r.v))
                  ELSE Raise(S, PlusOperands)
      [] operator = "/" ->
             IF numbers(l, r)
             THEN Value(S, Slash(l, r))
             ELSE Raise(S, OperandsMustBeNumbers("/"))

\* the switch of VisitBinaryExpr on the operator, for the operand values l, r
binary(S, operator, l, r) ==
    CASE operator = ">" ->
             IF numbers(l, r)
             THEN Value(S, Bool(Greater(l, r)))
             ELSE Raise(S, OperandsMustBeNumbers(">"))
      [] operator = "-" ->
             IF numbers(l, r)
             THEN Value(S, Minus(l, r))
             ELSE Raise(S, OperandsMustBeNumbers("-"))
      [] operator = "+" ->
             IF numbers(l, r)
             THEN Value(S, Plus(l, r))
             ELSE IF l.tag = "str" /\ r.tag = "str"
                  THEN Value(S, Str(l.v \o r.v))
                  ELSE Raise(S, PlusOperands)
      [] operator = "/" ->
             IF numbers(l, r)
             THEN IF Numer(r) = 0 /\ Denom(r) # 0
                  THEN Raise(S, DivisionByZero)
                  ELSE Value(S, Slash(l, r))
             ELSE Raise(S, OperandsMustBeNumbers("/"))

Interpreter_VisitBinaryExpr(S, expr) ==
    IfValue(Expr_Accept(S, expr.Left),
            LAMBDA l : IfValue(Expr_Accept(l.S, expr.Right),
                               LAMBDA r : binary(r.S, expr.Operator, l.val, r.val)))

\* a call without arguments
Interpreter_VisitCallExpr(S, expr) ==
    IfValue(Expr_Accept(S, expr.Callee),
            LAMBDA c : IF c.val.tag \notin {"fun", "class"}
                       THEN Raise(c.S, NotCallable)
                       ELSE VisitCallExpr(c.S, c.val, <<>>))

\* Interpreter.evaluate
Expr_Accept(S, e) ==
    CASE e.type = "Literal" -> Value(S, e.Value)
      [] e.type = "Variable" -> Interpreter_VisitVariableExpr(S, e)
      [] e.type = "Assign" -> Interpreter_VisitAssignExpr(S, e)
      [] e.type = "Binary" -> Interpreter_VisitBinaryExpr(S, e)
      [] e.type = "Call" -> Interpreter_VisitCallExpr(S, e)

\* the value of an expression that may be missing
valueOf(S, e) == IF e # NilNode THEN Expr_Accept(S, e) ELSE Value(S, Nil)

Interpreter_VisitVarStmt(S, stmt) ==
    IfNoError(valueOf(S, stmt.initializer),
              LAMBDA v : Normal([v.S EXCEPT
                                   !.envs = defineVarValue(@, v.S.env, stmt.name, v.val)]))

Interpreter_VisitExpressionStmt(S, stmt) ==
    IfNoError(Expr_Accept(S, stmt.expression), LAMBDA v : Normal(v.S))

\* mutant: an instance is written as its class is
LoxInstance_String_className(S, li) == S.classes[S.instances[li].class].name

LoxInstance_String(S, li) ==
    "Instance of class " \o S.classes[S.instances[li].class].name

\* fmt.Sprintf("%v", value)
Sprintf_v(S, value) ==
    CASE value.tag = "nil" -> "<nil>"
      [] value.tag = "bool" -> IF value.v THEN "true" ELSE "false"
      [] value.tag = "str" -> value.v
      [] value.tag = "instance" -> LoxInstance_String(S, value.v)

TwoLines == "hello\nworld"

\* the lines that a text followed by a line break makes on standard output
LinesOf(s) == IF s = TwoLines THEN <<"hello", "world">> ELSE <<s>>

\* val is the value written
Interpreter_VisitPrintStmt(S, stmt) ==
    IfNoError(Expr_Accept(S, stmt.expression),
              LAMBDA v : [Normal([v.S EXCEPT !.out = @ \o LinesOf(Sprintf_v(v.S, v.val))])
                             EXCEPT !.val = v.val])

Interpreter_VisitIfStmt(S, stmt) ==
    IfNoError(Expr_Accept(S, stmt.condition),
              LAMBDA c : IF isTruthy(c.val)
                         THEN execute(c.S, stmt.thenBranch)
                         ELSE IF stmt.elseBranch # NilNode
                              THEN execute(c.S, stmt.elseBranch)
                              ELSE Normal(c.S))

RECURSIVE Interpreter_VisitWhileStmt(_, _)
Interpreter_VisitWhileStmt(S, stmt) ==
    IfNoError(Expr_Accept(S, stmt.condition),
              LAMBDA c : IF isTruthy(c.val)
                         THEN IfNil(execute(c.S, stmt.statement),
                                    LAMBDA x : Interpreter_VisitWhileStmt(x.S, stmt))
                         ELSE Normal(c.S))

\* the statements in turn, up to the first that returns an error
executeStmts(S, statements) ==
    IF statements = <<>>
    THEN Normal(S)
    ELSE IfNil(execute(S, Head(statements)),
               LAMBDA x : executeStmts(x.S, Tail(statements)))

\* x, with env the current environment again if restore
Restored(x, env, restore) == IF restore THEN [x EXCEPT !.S.env = env] ELSE x

\* mutant: the previous environment is restored after a block without error
Interpreter_VisitBlockStmt_noRestoreOnError(S, stmt) ==
    LET F(x) == Restored(x, S.env, x.signal = "normal")
    IN  F(executeStmts([S EXCEPT !.envs = Append(@, NewEnvironment(S.env)),
                                 !.env = Len(S.envs) + 1],
                       stmt.statements))

Interpreter_VisitBlockStmt(S, stmt) ==
    LET F(x) == Restored(x, S.env, TRUE)
    IN  F(executeStmts([S EXCEPT !.envs = Append(@, NewEnvironment(S.env)),
                                 !.env = Len(S.envs) + 1],
                       stmt.statements))

\* the value of a return statement travels as a ReturnValue error
Interpreter_VisitReturnStmt(S, stmt) ==
    IfNoError(valueOf(S, stmt.returnValue), LAMBDA v : ReturnValue(v.S, v.val))

\* Interpreter.execute
execute(S, stmt) ==
    CASE stmt.type = "Var" -> Interpreter_VisitVarStmt(S, stmt)
      [] stmt.type = "Expression" -> Interpreter_VisitExpressionStmt(S, stmt)
      [] stmt.type = "Print" -> Interpreter_VisitPrintStmt(S, stmt)
      [] stmt.type = "If" -> Interpreter_VisitIfStmt(S, stmt)
      [] stmt.type = "While" -> Interpreter_VisitWhileStmt(S, stmt)
      [] stmt.type = "Block" -> Interpreter_VisitBlockStmt(S, stmt)
      [] stmt.type = "Return" -> Interpreter_VisitReturnStmt(S, stmt)

\* the functions the program declares
Const(v) == LiteralExpr(v)
Var(name) == VariableExpr(name)
Positive == BinaryExpr(Var("a"), ">", Const(Num(0)))      \* a > 0
Late == PrintStmt(Const(Str("late")))
Call(name) == CallExpr(Var(name))

FunDecls ==
    << FunctionStmt("inBlock", FALSE, <<>>,
                    Body(<< BlockStmt(<< ReturnStmt(Const(Str("block"))) >>), Late >>)),
       FunctionStmt("inIf", FALSE, <<>>,
                    Body(<< IfStmt(Positive, ReturnStmt(Const(Str("if"))), NilNode),
                            Late >>)),
       FunctionStmt("inWhile", FALSE, <<>>,
                    Body(<< WhileStmt(Positive,
                                      BlockStmt(<< ReturnStmt(Const(Str("while"))) >>)),
                            Late >>)),
       FunctionStmt("outer", FALSE, <<>>,
                    Body(<< PrintStmt(Call("inBlock")),
                            PrintStmt(Const(Str("outer"))),
                            ReturnStmt(Const(Str("done"))) >>)) >>

\* a function declaration is executed: the function captures the current
\* environment and is bound to its name in it
Interpreter_VisitFunctionStmt(S, stmt) ==
    [S EXCEPT !.envs = defineVarValue(@, S.env, stmt.functionName,
                                      FunValue(Len(S.functions) + 1)),
              !.functions = Append(@, LoxFunction(stmt, S.env))]

RECURSIVE declareFunctions(_, _)
declareFunctions(S, stmts) ==
    IF stmts = <<>>
    THEN S
    ELSE declareFunctions(Interpreter_VisitFunctionStmt(S, Head(stmts)), Tail(stmts))

\* the statements the program goes on with; every local variable is read, so
\* that the resolve pass accepts them
Quotient(Left, Right) == BinaryExpr(Left, "/", Right)
Assign(name, value) == ExpressionStmt(AssignExpr(name, value))

One == Const(Num(1))
Two == Const(Num(2))

\* var r = 2 / a;
DivideInInitializer == VarStmt("r", Quotient(Two, Var("a")))

\* var r = (a + 1) / (a - 1);
DivideNested ==
    VarStmt("r", Quotient(BinaryExpr(Var("a"), "+", One), BinaryExpr(Var("a"), "-", One)))

\* if (2 / a > 1) print "big";
DivideInIf ==
    IfStmt(BinaryExpr(Quotient(Two, Var("a")), ">", One),
           PrintStmt(Const(Str("big"))), NilNode)

\* while (1 / a > 0) a = a - 1;
DivideInWhile ==
    WhileStmt(BinaryExpr(Quotient(One, Var("a")), ">", Const(Num(0))),
              Assign("a", BinaryExpr(Var("a"), "-", One)))

\* { var b = 2; a = b; }
BlockAssigns == BlockStmt(<< VarStmt("b", Two), Assign("a", Var("b")) >>)

\* { var b = 0; a = 2; a = 1 / b; }
BlockFails ==
    BlockStmt(<< VarStmt("b", Const(Num(0))), Assign("a", Two),
                 Assign("a", Quotient(One, Var("b"))) >>)

\* { var b = 0; { var c = 2; a = c; a = c / b; } }
NestedBlockFails ==
    BlockStmt(<< VarStmt("b", Const(Num(0))),
                 BlockStmt(<< VarStmt("c", Two), Assign("a", Var("c")),
                              Assign("a", Quotient(Var("c"), Var("b"))) >>) >>)

\* print a > 1;
PrintBool == PrintStmt(BinaryExpr(Var("a"), ">", One))

Lines ==
    { VarStmt("a", Const(Num(n))) : n \in 0..2 }
    \cup
    { DivideInInitializer, DivideNested, DivideInIf, DivideInWhile,
      BlockAssigns, BlockFails, NestedBlockFails,
      PrintBool,
      PrintStmt(Const(Nil)),
      PrintStmt(Const(Str("hello"))),
      PrintStmt(Const(Str(TwoLines))),
      PrintStmt(Var("o")),
      PrintStmt(Call("inBlock")),
      PrintStmt(Call("inIf")),
      PrintStmt(Call("inWhile")),
      PrintStmt(Call("outer")) }

\* the run after the declarations have been executed
InitExec ==
    /\ LET S0 == Interp(Objects(<<NewEnvironment(NilEnv)>>, <<>>,
                                <<NewLoxClass("A", EmptyMap)>>, <<NewLoxInstance(1)>>),
                        1, <<>>)
           S1 == declareFunctions(S0, FunDecls)
       IN  /\ envs = defineVarValue(S1.envs, 1, "o", InstanceValue(1))
           /\ functions = S1.functions
           /\ classes = S1.classes
           /\ instances = S1.instances
    /\ pre = envs
    /\ before = [functions |-> functions, instances |-> instances]
    /\ nops = 0
    /\ op = NoOp
    /\ ret = NoRet
    /\ handles = <<>>
    /\ ncalls = <<>>
    /\ called = [handle |-> 0, value |-> Nil]
    /\ ienv = 1
    /\ out = <<>>
    /\ hadRuntimeError = FALSE
    /\ runtimeErrors = <<>>
    /\ atError = NoAtError
    /\ locals = NoLocals
    /\ prog = <<>>
    /\ pos = 1
    /\ NewResolver

UnexpectedReturn == "ReturnValue"

\* one turn of the loop of Interpreter.interpret: the next statement of the
\* program is executed, and a statement that returns an error ends the run
Interpret(stmt) ==
    /\ ~hadRuntimeError
    /\ nops < MaxLines
    /\ \E x \in {IF stmt.type = "Expression"
                 THEN IfNoError(Expr_Accept(Interp(ObjectsNow, ienv, out), stmt.expression),
                                LAMBDA v : Normal(v.S))
                 ELSE execute(Interp(ObjectsNow, ienv, out), stmt)} :
           /\ envs' = x.S.envs
           /\ functions' = x.S.functions
           /\ instances' = x.S.instances
           /\ ienv' = x.S.env
           /\ out' = x.S.out
           /\ hadRuntimeError' = (x.signal # "normal")
           /\ ret' = [val |-> x.val,
                      err |-> IF x.signal = "return" THEN UnexpectedReturn ELSE x.err]
    /\ pre' = envs
    /\ before' = [functions |-> functions, instances |-> instances]
    /\ op' = [kind |-> "execute", stmt |-> stmt, env |-> ienv, out |-> out]
    /\ nops' = nops + 1
    /\ UNCHANGED <<classes, handles, ncalls, called, resVars,
                   prog, pos, runtimeErrors, atError, locals>>

NextExec == \E stmt \in Lines : Interpret(stmt)

SpecExec == InitExec /\ [][NextExec]_vars

----------------------------------------------------------------------------
(* Static errors of the resolve pass *)

\* the last resolver step reported the message
Reported(message) ==
    \E i \in (last.n0 + 1)..Len(errors) : errors[i] = message

\* C6: a declaration of a name that the text has already declared in the same
\* block, function body or parameter list is reported as "Already a variable
\* with this name in this scope.", and a declaration of a name that the text
\* has already declared at global scope is not.
C6_RedeclarationError ==
    /\ last.redecl => Reported(AlreadyDeclared)
    /\ last.again => ~Reported(AlreadyDeclared)

\* C7: when a var statement declares a name in the innermost scope of the
\* resolver and its initializer is a variable expression that reads that
\* name, declared but not yet defined there, the resolver reports "Can't read
\* local variable in its own initializer", whatever the outer scopes hold.
C7_OwnInitializerError ==
    last.ownInit => Reported(OwnInitializer)

\* `{ var a = 1; { var a = a; } }`: the error is reported although the
\* enclosing scope holds a defined a
C7_Witness ==
    /\ last.ownInit
    /\ errors = <<OwnInitializer>>
    /\ Len(scopes) >= 2
    /\ \E n \in DOMAIN Top(scopes) :
           /\ Top(scopes)[n] = isDeclared
           /\ n \in DOMAIN scopes[Len(scopes) - 1]
           /\ scopes[Len(scopes) - 1][n] = isDefined

C9_FailFast ==
    /\ Len(errors) <= 1
    /\ last.stmt => last.n0 = 0

\* C10: once the resolver has reported a static error for a program, the
\* interpreter is never started on it: nothing is printed, no scope is
\* created and no binding changes, whatever precedes the offending statement.
C10_NoExecutionOnStaticError ==
    errors # <<>> =>
        /\ phase # "interpret"
        /\ out = <<>>
        /\ envs = <<NewEnvironment(NilEnv)>>
        /\ ~hadRuntimeError

\* a run has ended on a static error that a print statement precedes
C10_Witness ==
    /\ phase = "done"
    /\ errors # <<>>
    /\ Len(prog) >= 2
    /\ prog[1].kind = "print"
    /\ nstmts >= 2
    /\ out = <<>>

\* C11: when a statement fails at run time the run ends there: the output and
\* the bindings are those the statements before it left, no later statement
\* runs, and GLox.runtimeError has been called exactly once.
C11_RuntimeErrorStopsRun ==
    hadRuntimeError =>
        /\ phase = "done"
        /\ pos = atError.pos
        /\ out = atError.out
        /\ envs = atError.envs
        /\ Len(runtimeErrors) = 1

\* the second of three statements has failed after a definition, before a print
C11_Witness ==
    /\ hadRuntimeError
    /\ pos = 2
    /\ Len(prog) = 3
    /\ prog[3].kind = "print"
    /\ envs[1].values = Put(EmptyMap, "a", Num(1))

\* C16: `return <value>;` in the body of init, at any depth of blocks and
\* branches, is reported as a static error; `return;` there is accepted, and
\* so is `return <value>;` in a function, also in one declared within init.
C16_InitializerReturn ==
    /\ (last.ret = "value" /\ last.fn = "init") => Reported(InitializerReturn)
    /\ (last.ret = "bare" /\ last.fn = "init") => Len(errors) = last.n0
    /\ (last.ret = "value" /\ last.fn = "function") =>
           /\ ~Reported(InitializerReturn)
           /\ ~Reported(TopLevelReturn)

\* `return <value>;` in a block of init has just been rejected
C16_Witness ==
    /\ last.ret = "value"
    /\ last.fn = "init"
    /\ InFrame("block")
    /\ Top(text).fn = "none"
    /\ errors = <<InitializerReturn>>

\* C17: a return statement is rejected with "Can't return from top-level
\* code." exactly when no function or method of the text encloses it, also
\* when it follows a function declaration; no other statement is.
C17_TopLevelReturn ==
    Reported(TopLevelReturn) <=> (last.ret # "none" /\ last.fn = "none")

\* a return right after a function declaration has just been rejected
C17_Witness ==
    /\ last.ret # "none"
    /\ last.fnEnd
    /\ last.fn = "none"
    /\ stack = <<>>
    /\ errors = <<TopLevelReturn>>

----------------------------------------------------------------------------
(* Classes, instances and methods *)

\* the class declarations of the program text
DeclOf(className) ==
    CHOOSE c \in 1..Len(ClassDecls) : ClassDecls[c].className = className

HasMethod(c, m) ==
    \E i \in 1..Len(ClassDecls[c].methods) : ClassDecls[c].methods[i].functionName = m

MethodDecl(c, m) ==
    ClassDecls[c].methods[CHOOSE i \in 1..Len(ClassDecls[c].methods) :
                              ClassDecls[c].methods[i].functionName = m]

\* the nearest class that declares m, from class c up its superclasses; 0 if none
RECURSIVE Definer(_, _)
Definer(c, m) ==
    IF HasMethod(c, m)
    THEN c
    ELSE IF ClassDecls[c].superclass = NoSuperclass
         THEN 0
         ELSE Definer(DeclOf(ClassDecls[c].superclass), m)

\* the class of the instance that the LoxFunction fn is bound to
ClassOfThis(fn) == classes[instances[This(envs, functions[fn]).v].class].name

\* the last operation read property op.name of an instance that has no such field
ReadMethod ==
    /\ op.kind = "get"
    /\ op.name \notin DOMAIN before.instances[op.inst].fields

\* C12: super.m() in a method reaches the superclass of the class whose text
\* holds the method: parentGreet() on an instance of B returns "A" and on an
\* instance of C returns "B", and bar, declared in B only, can be read from an
\* instance of C and then returns what foo of A returns.
C12_SuperIsLexical ==
    /\ (op.kind = "call" /\ op.name = "parentGreet" /\ ClassOfThis(op.inst) = "B")
           => ret = [val |-> Str("A"), err |-> NoErr]
    /\ (op.kind = "call" /\ op.name = "parentGreet" /\ ClassOfThis(op.inst) = "C")
           => ret = [val |-> Str("B"), err |-> NoErr]
    /\ (op.kind = "call" /\ op.name = "bar")
           => ret = [val |-> Str("A.foo"), err |-> NoErr]
    /\ (ReadMethod /\ op.name = "bar"
            /\ classes[instances[op.inst].class].name = "C")
           => /\ ret.err = NoErr
              /\ ret.val.tag = "fun"
              /\ functions[ret.val.v].declaration = MethodDecl(DeclOf("B"), "bar")

\* C13: findMethod returns the method of the nearest class, from the class up
\* its superclasses, that declares the name, and nothing only if none does.
C13_FindMethodInherits ==
    \A c \in 1..Len(classes), m \in PropNames :
        LET d == Definer(c, m)
            method == LoxClass_findMethod(classes[c], m)
        IN  IF d = 0
            THEN method = NoMethod
            ELSE /\ method # NoMethod
                 /\ functions[method].declaration = MethodDecl(d, m)

\* C14: a call of a class returns a new instance of that class; its fields
\* are those that init, called with the arguments on this instance, has set,
\* and none if the class has no init; it is the instance that is returned
\* whether init ends normally or with `return;`, and no other instance changes.
C14_ConstructReturnsInstance ==
    op.kind = "construct" =>
        LET k == Len(before.instances) + 1
        IN  /\ ret = [val |-> InstanceValue(k), err |-> NoErr]
            /\ Len(instances) = k
            /\ instances[k].class = op.inst
            /\ instances[k].fields =
                   IF HasMethod(op.inst, "init")
                   THEN Put(EmptyMap, "field", op.val)
                   ELSE EmptyMap
            /\ SubSeq(instances, 1, k - 1) = before.instances

\* C(2) has returned an instance whose field init has set before `return;`,
\* after B(1) has returned one whose init ended normally
C14_Witness ==
    /\ op.kind = "construct"
    /\ classes[op.inst].name = "C"
    /\ ret = [val |-> InstanceValue(2), err |-> NoErr]
    /\ instances[2].fields = Put(EmptyMap, "field", Num(2))
    /\ classes[instances[1].class].name = "B"
    /\ instances[1].fields = Put(EmptyMap, "field", Num(1))

\* C15: a call of init read from an instance sets the fields of that instance
\* again and returns that instance.
C15_InitReturnsInstance ==
    (op.kind = "call" /\ op.name = "init") =>
        /\ ret = [val |-> This(envs, functions[op.inst]), err |-> NoErr]
        /\ instances[ret.val.v].fields["field"] = op.val

\* the method that the class of the instance read by the last operation has
\* under the name read
MethodRead ==
    LoxClass_findMethod(classes[before.instances[op.inst].class], op.name)

\* C18: a read of a property returns the field of that name if the instance
\* has one, else the class's method of that name bound to the instance, else
\* the error "undefined property"; a write sets the field and nothing else.
\* So a field shadows a method of the same name in every later read, and a
\* read leaves the fields of all instances as they were.
C18_FieldShadowsMethod ==
    /\ op.kind = "get" =>
           LET fields == before.instances[op.inst].fields
           IN  /\ instances = before.instances
               /\ IF op.name \in DOMAIN fields
                  THEN /\ ret = [val |-> fields[op.name], err |-> NoErr]
                       /\ functions = before.functions
                  ELSE IF MethodRead # NoMethod
                       THEN /\ ret.err = NoErr
                            /\ ret.val = FunValue(Len(functions))
                            /\ Len(functions) = Len(before.functions) + 1
                            /\ Top(functions).declaration =
                                   functions[MethodRead].declaration
                            /\ This(envs, Top(functions)) = InstanceValue(op.inst)
                       ELSE ret = [val |-> Nil, err |-> UndefinedProperty(op.name)]
    /\ op.kind = "set" =>
           instances = [before.instances EXCEPT
                           ![op.inst].fields = Put(@, op.name, op.val)]
    /\ \A li \in 1..Len(instances) : \A name \in DOMAIN instances[li].fields :
           LET r == LoxInstance_get(ObjectsNow, li, name)
           IN  r.val = instances[li].fields[name] /\ r.err = NoErr

\* instance.greet = 2; has been followed by a read of instance.greet, which
\* returned 2, on an instance of a class that has a method greet
C18_Witness ==
    /\ op.kind = "get"
    /\ op.name = "greet"
    /\ MethodRead # NoMethod
    /\ ret = [val |-> Num(2), err |-> NoErr]

\* C19: a read that finds a getter returns what the call of the bound getter
\* without arguments returns; a read that finds a method with a parameter
\* list returns the bound method.
C19_GetterInvoked ==
    (ReadMethod /\ MethodRead # NoMethod) =>
        IF functions[MethodRead].declaration.isGetter
        THEN ret = [val |-> Str("g"), err |-> NoErr]
        ELSE ret = [val |-> FunValue(Len(functions)), err |-> NoErr]

\* the LoxFunction structs that bind has returned
Bound == {fn \in 1..Len(functions) : This(envs, functions[fn]) # Nil}

\* C20: the function that bind returns has the declaration of the method and
\* a closure of its own, created for it, whose parent is the closure of the
\* method and whose only binding is this = the instance; bind changes no
\* LoxFunction and no Environment that existed before, and no operation
\* changes them later, so every bound function keeps its own this.
C20_BindIsFresh ==
    /\ (ReadMethod /\ MethodRead # NoMethod) =>
           LET method == before.functions[MethodRead]
               bound == Top(functions)
           IN  /\ Len(functions) = Len(before.functions) + 1
               /\ Len(envs) = Len(pre) + 1
               /\ bound.declaration = method.declaration
               /\ bound.closure = Len(envs)
               /\ Top(envs) = [enclosing |-> method.closure,
                               values |-> Put(EmptyMap, "this", InstanceValue(op.inst))]
    /\ SubSeq(functions, 1, Len(before.functions)) = before.functions
    /\ SubSeq(envs, 1, Len(pre)) = pre
    /\ \A f \in Bound, g \in Bound : f # g =>
           functions[f].closure # functions[g].closure

\* greet has been read from two instances of one class: two bound functions
\* of one declaration, each with its own this
C20_Witness ==
    /\ ReadMethod
    /\ op.name = "greet"
    /\ op.inst = 2
    /\ instances[1].class = instances[2].class
    /\ \E f \in Bound, g \in Bound :
           /\ functions[f].declaration = Top(functions).declaration
           /\ functions[g].declaration = Top(functions).declaration
           /\ This(envs, functions[f]) = InstanceValue(1)
           /\ This(envs, functions[g]) = InstanceValue(2)

\* the number of parameters that the program text gives the callee: those of
\* init for a class, none for a class without init
DeclaredArity(callee) ==
    IF callee.tag = "class"
    THEN IF HasMethod(callee.v, "init")
         THEN Len(MethodDecl(callee.v, "init").params)
         ELSE 0
    ELSE Len(before.functions[callee.v].declaration.params)

\* the number of arguments of the call that the last operation made
Passed == IF op.val = Nil THEN 0 ELSE 1

\* C21: a call expression with as many arguments as the callee has parameters
\* calls it; with any other number it fails with 'Expected N arguments but
\* got M', no instance is created and nothing of the body is executed.  The
\* parameters of a class are those of its init, and none without init.
C21_ArityChecked ==
    /\ op.kind = "arity" =>
           /\ op.inst # DeclaredArity(op.val)
           /\ ret = [val |-> Nil, err |-> ArityError(DeclaredArity(op.val), op.inst)]
           /\ envs = pre
           /\ functions = before.functions
           /\ instances = before.instances
    /\ op.kind = "construct" =>
           /\ Passed = DeclaredArity(ClassValue(op.inst))
           /\ ret.err = NoErr
    /\ op.kind = "call" =>
           /\ Passed = DeclaredArity(FunValue(op.inst))
           /\ \A n, m \in 0..2 : ret.err # ArityError(n, m)

\* B(), for class B whose init takes one argument, after a call B(1) that
\* has made an instance
C21_Witness ==
    /\ op = ObjOp("arity", 0, "", ClassValue(DeclOf("B")))
    /\ ret.err = "Expected 1 arguments but got 0"
    /\ Len(instances) = 1

----------------------------------------------------------------------------
(* The interpreter over statements *)

\* the value of the global variable a when the last statement started
GlobalA == getVarValue(pre, 1, "a")

\* a has a whole number as its value
WholeA == GlobalA.err = NoErr /\ GlobalA.val.tag = "num" /\ Denom(GlobalA.val) = 1

\* the last statement has evaluated a division whose right operand was zero,
\* and no other error came first: by the text of the statements of Lines
ZeroDivisor ==
    \/ op.stmt \in {DivideInInitializer, DivideInIf} /\ WholeA /\ Numer(GlobalA.val) = 0
    \/ op.stmt = DivideNested /\ WholeA /\ Numer(GlobalA.val) = 1
    \/ op.stmt = DivideInWhile /\ WholeA /\ Numer(GlobalA.val) >= 0
    \/ op.stmt \in {BlockFails, NestedBlockFails} /\ GlobalA.err = NoErr

\* v is not the number +Inf, -Inf or NaN
Finite(v) == v.tag = "num" => Denom(v) # 0

\* C22: a statement that divides by zero, in a variable initializer, a nested
\* expression, an if condition or a while condition, ends with the runtime
\* error 'illegal operation: division by zero', which nothing else causes, and
\* no variable ever holds an infinity or a NaN.
C22_DivisionByZero ==
    op.kind = "execute" =>
        /\ ZeroDivisor <=> ret.err = DivisionByZero
        /\ ret.err = DivisionByZero => hadRuntimeError
        /\ \A e \in 1..Len(envs) : \A n \in DOMAIN envs[e].values :
               Finite(envs[e].values[n])

\* while (1 / a > 0) a = a - 1; started with a = 2, has gone twice through
\* its body and then divided by zero
C22_Witness ==
    /\ op.kind = "execute"
    /\ op.stmt = DivideInWhile
    /\ GlobalA.val = Num(2)
    /\ getVarValue(envs, 1, "a").val = Num(0)
    /\ ret.err = DivisionByZero

----------------------------------------------------------------------------
(* The resolver and classes *)

\* C23: a `this` expression that the resolver visits is accepted (the step
\* reports nothing and returns no error) when the text is inside the body of a
\* class declaration, in a method or in a function nested in one, and is
\* reported as "can't use 'this' outside a class" everywhere else, whatever
\* was declared before.
C23_ThisOnlyInClass ==
    /\ last.this = "class" =>
           /\ rerr = NoErr
           /\ Len(errors) = last.n0
    /\ last.this = "outside" =>
           /\ rerr = ThisOutsideClass
           /\ Len(errors) = last.n0 + 1
           /\ errors[Len(errors)] = ThisOutsideClass

\* `this` in a function declared in the body of a method
C23_Witness ==
    /\ last.this = "class"
    /\ EnclosingFn(text) = "function"
    /\ rerr = NoErr

\* C24: the second method or getter of a name in one class body is reported
\* as "method with this name already exists" and ends the pass with that
\* error, and the first of a name never is, whatever other classes declare.
C24_MethodNamesUnique ==
    /\ last.method = "again" =>
           /\ rerr = MethodExists
           /\ Reported(MethodExists)
    /\ last.method = "first" =>
           /\ rerr # MethodExists
           /\ ~Reported(MethodExists)

\* the second method of a name in a class body
C24_Witness ==
    /\ last.method = "again"
    /\ rerr = MethodExists
    /\ errors[Len(errors)] = MethodExists

\* a class declared in a method m declares a method m of its own
C24_SharedName ==
    /\ last.method = "first"
    /\ rerr = NoErr
    /\ \E i \in 1..Len(text) : \E j \in (i + 1)..Len(text) :
           text[i].methods \cap text[j].methods # {}

----------------------------------------------------------------------------
(* Instances and their fields *)

\* the variables of the run that refer to instance li: `this` in the
\* environments that bind has made for its methods
Aliases(li) ==
    {e \in 1..Len(envs) : /\ "this" \in DOMAIN envs[e].values
                          /\ envs[e].values["this"] = InstanceValue(li)}

\* the instance whose field the last operation has assigned: the one named in
\* `instance.name = value`, or the one whose init ran `this.field = x`, in
\* the call of its class or in a call of the bound method
Assigned ==
    CASE op.kind = "set" -> op.inst
      [] op.kind = "construct" -> Len(instances)
      [] op.kind = "call" /\ op.name = "init" -> This(envs, functions[op.inst]).v
      [] OTHER -> 0

\* C25: an assignment to a property of an instance, made through a variable
\* or through `this`, leaves the fields of every other instance as they were,
\* and every reference to the instance reads the assigned value afterwards.
C25_FieldsPerInstance ==
    /\ \A j \in 1..Len(before.instances) :
           j # Assigned => instances[j] = before.instances[j]
    /\ op.kind = "set" =>
           /\ LoxInstance_get(ObjectsNow, op.inst, op.name).val = op.val
           /\ \A e \in Aliases(op.inst) :
                  LoxInstance_get(ObjectsNow, envs[e].values["this"].v, op.name).val
                      = op.val
    /\ op.kind = "call" /\ op.name = "init" =>
           LoxInstance_get(ObjectsNow, Assigned, "field").val = op.val

\* a.field = value; for the first of two instances of B, both made with
\* another value of field, and with `this` of a's init as a second reference
C25_Witness ==
    /\ op.kind = "set"
    /\ op.inst = 1
    /\ op.name = "field"
    /\ Aliases(1) # {}
    /\ Len(instances) = 2
    /\ instances[2].class = instances[1].class
    /\ "field" \in DOMAIN instances[2].fields
    /\ instances[2].fields["field"] # op.val
    /\ before.instances[1].fields["field"] # op.val

----------------------------------------------------------------------------
(* The output of print *)

\* the last statement was a print statement whose expression called no
\* function, and it wrote the value ret.val
Printed ==
    /\ op.kind = "execute"
    /\ op.stmt.type = "Print"
    /\ op.stmt.expression.type # "Call"
    /\ ret.err = NoErr

\* the text forms of the values, with nilText for nil
TextForm(v, nilText) ==
    CASE v.tag = "nil" -> nilText
      [] v.tag = "bool" -> IF v.v THEN "true" ELSE "false"
      [] v.tag = "str" -> v.v
      [] v.tag = "instance" -> "Instance of class " \o classes[instances[v.v].class].name

\* C26 as stated: a print statement adds exactly one line to the output, and
\* the line is `nil` for nil, `true` or `false` for a boolean, the text of a
\* string and `Instance of class <Name>` for an instance.
C26_Stated ==
    Printed => out = Append(op.out, TextForm(ret.val, "nil"))

\* C26, amended: a print statement adds to the output the text form of the
\* value followed by one line break, which is more than one line for a
\* string that holds a line break; the text is `<nil>` for nil, `true` or
\* `false` for a boolean, the text of a string and `Instance of class <Name>`
\* for an instance.
C26_PrintCanonical ==
    Printed => out = op.out \o LinesOf(TextForm(ret.val, "<nil>"))

\* print nil; print o;
C26_Witness ==
    /\ Printed
    /\ op.stmt = PrintStmt(Var("o"))
    /\ out = <<"<nil>", "Instance of class A">>

----------------------------------------------------------------------------
(* Return *)

\* the last statement was `print name();`
PrintCall(name) == op.kind = "execute" /\ op.stmt = PrintStmt(Call(name))

\* the call of the last statement returned value, after its body and the
\* calls it made had written lines, and the value was printed
CallWrote(lines, value) ==
    /\ ret = [val |-> value, err |-> NoErr]
    /\ out = op.out \o lines \o <<TextForm(value, "<nil>")>>
    /\ ienv = op.env

\* the call of the last statement failed at its first step: the condition
\* a > 0 read a variable that is not defined
CallFailed ==
    /\ ret.err = UndefinedVariable("a")
    /\ out = op.out

\* what the functions inIf and inWhile do when they return the string s from
\* inside their if branch or while loop
Conditional(s) ==
    IF GlobalA.err # NoErr
    THEN CallFailed
    ELSE IF Numer(GlobalA.val) > 0
         THEN CallWrote(<<>>, Str(s))
         ELSE CallWrote(<<"late">>, Nil)

\* C27: a return statement in a block, in an if branch or in the block of a
\* while loop of a function body ends the call with the returned value and
\* nothing after it in the body is executed; a body that runs to its end
\* yields nil; a return in a called function ends that call only, and the
\* caller goes on; no statement of the program ends with a ReturnValue as its
\* error.
C27_ReturnEndsCall ==
    /\ PrintCall("inBlock") => CallWrote(<<>>, Str("block"))
    /\ PrintCall("inIf") => Conditional("if")
    /\ PrintCall("inWhile") => Conditional("while")
    /\ PrintCall("outer") => CallWrote(<<"block", "outer">>, Str("done"))
    /\ ret.err # UnexpectedReturn

\* print outer(); after print inWhile(); in a run whose global a is not
\* positive, so that the body of inWhile ran to its end
C27_Witness ==
    /\ PrintCall("outer")
    /\ out = <<"late", "<nil>", "block", "outer", "done">>

----------------------------------------------------------------------------
(* Blocks *)

\* the last statement was a block statement
BlockExecuted == op.kind = "execute" /\ op.stmt.type = "Block"

\* name cannot be read in the current environment
Unreachable(name) == getVarValue(envs, ienv, name).err = UndefinedVariable(name)

\* the environments that the last statement has made
MadeBy == (Len(pre) + 1)..Len(envs)

\* e and the environments that enclose it
RECURSIVE Enclosing(_)
Enclosing(e) == IF e = NilEnv THEN {} ELSE {e} \cup Enclosing(envs[e].enclosing)

\* C28: after a block statement, ended by its last statement or by a failing
\* one, the current environment is the one that was current before it, none
\* of the environments of the block and of the blocks in it is on the chain
\* of the current one, the variables b and c declared in the blocks cannot be
\* read, and the global variable a holds the 2 that the block assigned to it
\* before it ended.
C28_BlockRestoresEnv ==
    BlockExecuted =>
        /\ ienv = op.env
        /\ Enclosing(ienv) \cap MadeBy = {}
        /\ Unreachable("b")
        /\ Unreachable("c")
        /\ IF GlobalA.err = NoErr
           THEN getVarValue(envs, ienv, "a") = [val |-> Num(2), err |-> NoErr]
           ELSE ret.err = UndefinedVariable("a")
        /\ op.stmt = BlockAssigns /\ GlobalA.err = NoErr => ret.err = NoErr
        /\ op.stmt \in {BlockFails, NestedBlockFails} => ret.err # NoErr

\* var a = 1; { var b = 0; { var c = 2; a = c; a = c / b; } }
C28_Witness ==
    /\ BlockExecuted
    /\ op.stmt = NestedBlockFails
    /\ GlobalA.val = Num(1)
    /\ ret.err = DivisionByZero
    /\ Cardinality(MadeBy) = 2
    /\ ienv = op.env

----------------------------------------------------------------------------
(* Distances *)

\* the next statement to be executed has an expression
Evaluating ==
    /\ phase = "interpret"
    /\ pos <= Len(prog)
    /\ prog[pos].e # NoExpr

\* the innermost environment from e outwards that binds name, if any
RECURSIVE Binder(_, _)
Binder(e, name) ==
    IF e = NilEnv
    THEN NilEnv
    ELSE IF name \in DOMAIN envs[e].values THEN e ELSE Binder(envs[e].enclosing, name)

\* distance d leads from the current environment to the environment where
\* name is defined, and no distance means that no environment but the global
\* one defines it
Leads(name, d) ==
    IF d = NoDistance
    THEN Binder(ienv, name) \in {NilEnv, 1}
    ELSE /\ d <= ChainLen(envs, ienv)
         /\ ancestor(envs, ienv, d) = Binder(ienv, name)
         /\ ancestor(envs, ienv, d) # 1

RECURSIVE LexicalDistance(_, _)
LexicalDistance(name, i) ==
    IF i <= 1
    THEN NoDistance
    ELSE IF name \in text[i].names
         THEN Len(text) - i
         ELSE LexicalDistance(name, i - 1)

\* The resolver's half of C29, over programs with functions and classes: as
\* long as the pass has reported no error, the scope stack has one scope per
\* open block, function body and class body of the text, so that the distance
\* resolveLocal finds for a name is its distance by the text.
ScopesFollowText ==
    phase = "resolve" /\ ~hadError =>
        \A name \in Names \cup {"this"} :
            resolveLocalDistance(Cur, name, Len(scopes))
                = LexicalDistance(name, Len(text))

----------------------------------------------------------------------------
(* The scope stack *)

\* C30: when VisitBlockStmt, resolveFunction or VisitClassStmt has resolved
\* its last statement and returns no error, the scope stack is as deep as it
\* was when the call was entered, and when resolveStmts has returned no error
\* for the whole program the stack is empty.
C30_ScopesBalanced ==
    /\ last.closed /\ rerr = NoErr => Len(scopes) = last.depth
    /\ phase = "resolved" /\ rerr = NoErr => scopes = <<>>

====
